---- MODULE Spec2Model ----
(***************************************************************************)
(* Smart School Helper: the schedule comparator (findFreeSlots) and the    *)
(* lesson-to-slot allocator (handleFindSlotsForLessons) with the calendar  *)
(* helpers they rest on; the popup's cascading reset and report; the       *)
(* background worker's forwarding; the content script's handlers over its  *)
(* state object; the batched fetch of lesson details and the pagination of *)
(* the month's schedule.                                                   *)
(*                                                                         *)
(* Representation.  A date string "YYYY-MM-DD" is the number of days from  *)
(* 1970-01-01 to that civil date (DaysFromCivil); '' is EmptyDate and the  *)
(* text "NaN-NaN-NaN" that formatDate produces for an Invalid Date is      *)
(* NaNDate.  A JavaScript Date is its time value in hours since the epoch  *)
(* (UTC); Invalid Date is InvalidDate.  The local-time getters and setters *)
(* of Date go through the host time zone tz.                               *)
(***************************************************************************)
EXTENDS Integers, Sequences, FiniteSets, TLC

VARIABLES
  tz,          \* host time zone of the browser the scripts run in
  cmpMy,       \* findFreeSlots: mySchedule.entries
  cmpTarget,   \* findFreeSlots: targetSchedule.entries
  cmpFrom,     \* findFreeSlots: dateFrom
  cmpTo,       \* findFreeSlots: dateTo
  cmpSlots,    \* findFreeSlots: the returned freeSlots
  cmpPc,       \* "input" before the call, "done" after it
  teacherMonth,    \* server: the teacher's lessons of the month, in page order
  otherLessons,    \* server: lessons of the groups held by other teachers
  filterGroups,    \* server: group names offered by the lesson page's filter
  fetchedEntries,  \* popup: all schedule entries for the month
  filteredLessons, \* popup: entries visible in the lesson list
  lastResults,     \* popup: results from findAvailableSlots
  lessons,         \* FIND_SLOTS_FOR_LESSONS payload
  groupSchedules,  \* handler: groupName -> fetched entries
  teacherOccupied, \* handler: { date: Set<pair> } of the teacher
  virtualTeacher,  \* handler: slots assigned during this search
  virtualGroup,    \* handler: groupName -> slots assigned during this search
  results,         \* handler: the result list being built
  li,              \* handler: index of the lesson the for loop is at
  response,        \* the handler's answer to the popup
  prevResults,     \* results of the previous call on the same lessons
  calls,           \* FIND_SLOTS_FOR_LESSONS messages sent so far
  pc,              \* position of the report workflow
  pages,           \* downloadReport: the sections of the document, in order
  hiddenCards,     \* popup: ids of the cards that carry the class 'hidden'
  fwdPc,           \* background: position of forwardToContentScript
  fwdAction,       \* background: action of the forwarded message
  fwdTab,          \* background: tabs[0] as chrome.tabs.query reported it
  fwdSends,        \* background: outcome of each chrome.tabs.sendMessage call
  fwdInjected,     \* background: chrome.scripting.executeScript calls made
  fwdResponses,    \* background: the values sendResponse was called with
  mySchedule,      \* content script: state.mySchedule
  targetSchedule,  \* content script: state.targetSchedule
  stateFreeSlots,  \* content script: state.freeSlots
  selectedSlots,   \* content script: state.selectedSlots
  parsePc,         \* content script: position of the handleParseSchedule of each message
  parsePayload,    \* content script: payload of the PARSE_SCHEDULE of each message
  fetched,         \* content script: klassId of each fetchAndParseSchedule call
  cacheMsgs,       \* content script: groupId of each CACHE_SCHEDULE message sent
  csResponse,      \* content script: the last value a handler returned
  generated,       \* content script: slots of each ReportGenerator.generate call
  delivered,       \* content script: copyToClipboard and downloadBlob calls
  csHandled,       \* content script: messages taken so far
  detailEntries,   \* fetchLessonDetails: entries, each with or without a lessonId
  detailPc,        \* fetchLessonDetails: position in the procedure
  detailI,         \* fetchLessonDetails: i, the start of the current batch
  detailDone,      \* fetchLessonDetails: done
  inFlight,        \* fetchLessonDetails: indexes of the entries whose request is pending
  requested,       \* fetchLessonDetails: indexes of the entries a request was made for
  anyFailed,       \* fetchLessonDetails: a request has failed or was not OK
  progress,        \* fetchLessonDetails: the done values onProgress was called with
  pagePc,          \* handleFetchMonthSchedule: position in the procedure
  totalRecords,    \* handleFetchMonthSchedule: parseTotalRecords(doc), 0 for null
  collected,       \* handleFetchMonthSchedule: allEntries.length
  page,            \* handleFetchMonthSchedule: page
  pageLog,         \* handleFetchMonthSchedule: the page numbers requested, in order
  pageOutcome,     \* handleFetchMonthSchedule: what the latest request brought
  cachedSchedules, \* chrome.storage.local: cachedSchedules, groupId -> data
  cachePc,         \* background: position of the handler of each CACHE_SCHEDULE
  cacheLocal,      \* background: schedules, the object each handler read
  called,      \* helper function that was called last
  args,        \* its arguments
  returned     \* its return value

cmpVars == <<cmpMy, cmpTarget, cmpFrom, cmpTo, cmpSlots, cmpPc>>

serverVars == <<teacherMonth, otherLessons, filterGroups>>

popupVars == <<fetchedEntries, filteredLessons, lastResults>>

handlerVars == <<lessons, groupSchedules, teacherOccupied, virtualTeacher,
                 virtualGroup, results, li, response>>

allocVars == <<serverVars, popupVars, handlerVars, prevResults, calls, pc>>

utilVars == <<called, args, returned>>

fwdVars == <<fwdPc, fwdAction, fwdTab, fwdSends, fwdInjected, fwdResponses>>

contentVars == <<mySchedule, targetSchedule, stateFreeSlots, selectedSlots, parsePc,
                 parsePayload, fetched, cacheMsgs, csResponse, generated,
                 delivered, csHandled>>

detailVars == <<detailEntries, detailPc, detailI, detailDone, inFlight, requested,
                anyFailed, progress>>

pageVars == <<pagePc, totalRecords, collected, page, pageLog, pageOutcome>>

cacheVars == <<cachedSchedules, cachePc, cacheLocal>>

extVars == <<fwdVars, contentVars, detailVars, pageVars, cacheVars>>

baseVars == <<tz, cmpVars, allocVars, pages, utilVars, hiddenCards, cacheVars>>

vars == <<tz, cmpVars, allocVars, pages, utilVars, hiddenCards, extVars>>

(***************************************************************************)
(* Bounds of the model.                                                    *)
(***************************************************************************)
MaxEntries == 2    \* longest schedule given to findFreeSlots
WindowLen == 5     \* days in a window dateFrom and dateTo are drawn from
MaxLessons == 2    \* most lessons the teacher has in the fetched month
MaxCalls == 2      \* most FIND_SLOTS_FOR_LESSONS messages in one run
MaxOccEntries == 3  \* longest entry list given to buildOccupiedMap
MaxSlots == 3       \* longest list of free slots given to suggestSlots
MaxMessages == 3     \* messages the content script takes in one run
MaxDetailEntries == 11  \* entries handed to fetchLessonDetails
MaxPageEntries == 2  \* entries parsed from one page of the lesson search
MaxResults == 3     \* most results held by the popup when a report is built

(***************************************************************************)
(* Dates and the host time zone.                                           *)
(***************************************************************************)
EmptyDate == 0      \* the date string ''
NaNDate == -1       \* the date string "NaN-NaN-NaN"
InvalidDate == -2   \* the time value of an Invalid Date
NaN == -3           \* the number NaN

\* Days from 1970-01-01 to the civil date y-m-d (proleptic Gregorian).
DaysFromCivil(y, m, d) ==
  LET yy  == IF m <= 2 THEN y - 1 ELSE y
      era == yy \div 400
      yoe == yy - era * 400
      mp  == IF m > 2 THEN m - 3 ELSE m + 9
      doy == (153 * mp + 2) \div 5 + d - 1
      doe == yoe * 365 + yoe \div 4 - yoe \div 100 + doy
  IN  era * 146097 + doe - 719468

\* The civil year and month of the day number z.
CivilYearMonth(z) ==
  LET zz  == z + 719468
      era == zz \div 146097
      doe == zz - era * 146097
      yoe == (doe - doe \div 1460 + doe \div 36524 - doe \div 146096) \div 365
      doy == doe - (365 * yoe + yoe \div 4 - yoe \div 100)
      mp  == (5 * doy + 2) \div 153
      m   == IF mp < 10 THEN mp + 3 ELSE mp - 9
      y   == yoe + era * 400 + (IF m <= 2 THEN 1 ELSE 0)
  IN  <<y, m>>

\* Time zones a browser that runs the extension can be set to: one without
\* offset, the one of the school, and one west of Greenwich.
TimeZones == {"UTC", "Europe/Kyiv", "America/Bogota"}

\* Europe/Kyiv in 2026: EET (+2), EEST (+3) from 29 March 01:00 UTC to
\* 25 October 01:00 UTC.
KyivDstStart == DaysFromCivil(2026, 3, 29) * 24 + 1
KyivDstEnd == DaysFromCivil(2026, 10, 25) * 24 + 1

\* Offset of local time from UTC, in hours, at the instant t.  America/Bogota
\* is at -5 all year.
TzOffset(zone, t) ==
  IF zone = "Europe/Kyiv"
    THEN (IF KyivDstStart <= t /\ t < KyivDstEnd THEN 3 ELSE 2)
  ELSE IF zone = "America/Bogota" THEN 0 - 5
  ELSE 0

\* new Date("YYYY-MM-DD"): a date-only ISO string is UTC midnight of that date;
\* new Date('') and new Date("NaN-NaN-NaN") are Invalid Date.
NewDate(s) == IF s = EmptyDate \/ s = NaNDate THEN InvalidDate ELSE s * 24

\* LocalTime(t) of ECMAScript.
LocalTime(t) == t + TzOffset(tz, t)

\* UTC(t) of ECMAScript: a local time that is repeated or skipped at a
\* transition is read with the offset in force before the transition.
UTC(tl) ==
  LET offs == {o \in {0 - 5, 0, 2, 3} : TzOffset(tz, tl - o) = o}
  IN  IF Cardinality(offs) = 1
        THEN tl - (CHOOSE o \in offs : TRUE)
        ELSE tl - TzOffset(tz, tl - 24)

\* Date.prototype.getDay: 0 = Sunday .. 6 = Saturday, in local time.
GetDay(t) == IF t = InvalidDate THEN NaN ELSE ((LocalTime(t) \div 24) + 4) % 7

\* d.setDate(d.getDate() + k): the local calendar day moves by k, the local
\* time of day is kept.
AddDays(t, k) ==
  IF t = InvalidDate THEN InvalidDate
  ELSE UTC(((LocalTime(t) \div 24) + k) * 24 + (LocalTime(t) % 24))

\* formatDate: the local calendar date as YYYY-MM-DD.
FormatDate(t) == IF t = InvalidDate THEN NaNDate ELSE LocalTime(t) \div 24

\* getDayName(date): DAY_NAMES[new Date(date).getDay()], as the day index.
GetDayName(s) == GetDay(NewDate(s))

\* dateRange: the while loop.
RECURSIVE DateRangeLoop(_, _, _, _)
DateRangeLoop(current, end, weekdaysOnly, dates) ==
  IF current = InvalidDate \/ end = InvalidDate \/ ~(current <= end) THEN dates
  ELSE LET day == GetDay(current)
           pushed == IF ~weekdaysOnly \/ (day # 0 /\ day # 6)
                       THEN Append(dates, FormatDate(current))
                       ELSE dates
       IN  DateRangeLoop(AddDays(current, 1), end, weekdaysOnly, pushed)

dateRange(startDate, endDate, weekdaysOnly) ==
  DateRangeLoop(NewDate(startDate), NewDate(endDate), weekdaysOnly, << >>)

(***************************************************************************)
(* Occupancy maps: { date: Set<pairNumber> }.                              *)
(***************************************************************************)
NumPairs == 8
\* A faulty table: the eight pairs listed from the last to the first.
PairTimesDescending == [i \in 1..NumPairs |-> NumPairs + 1 - i]

PAIR_TIMES == [i \in 1..NumPairs |-> i]

EmptyMap == << >>

\* map[k] || new Set()
Busy(map, k) == IF k \in DOMAIN map THEN map[k] ELSE {}

\* if (!map[k]) map[k] = new Set(); map[k].add(v)
MapAdd(map, k, v) == (k :> (Busy(map, k) \cup {v})) @@ map

\* What the loop "for (const entry of entries) { if (!map[entry.date])
\* map[entry.date] = new Set(); map[entry.date].add(entry.pairNumber) }" leaves
\* in the map: one key for every date that occurs in the entries, holding
\* the pair numbers of the entries of that date.
DatesOf(entries) == {entries[i].date : i \in DOMAIN entries}

\* A faulty loop: "map[entry.date] = new Set([entry.pairNumber])", which keeps
\* the pair of the last entry of a date only.
PairsOnLastOnly(entries, date) ==
  LET last == CHOOSE i \in DOMAIN entries :
                /\ entries[i].date = date
                /\ \A j \in DOMAIN entries : entries[j].date = date => j <= i
  IN  {entries[last].pairNumber}

PairsOn(entries, date) ==
  {entries[i].pairNumber : i \in {j \in DOMAIN entries : entries[j].date = date}}

\* ScheduleComparator's buildOccupiedMap: every entry is added, also one with
\* an empty date.
ComparatorBuildOccupiedMap(entries) ==
  [d \in DatesOf(entries) |-> PairsOn(entries, d)]

(***************************************************************************)
(* ScheduleComparator.findFreeSlots.                                       *)
(***************************************************************************)
\* A faulty test: only the first schedule is looked at.
BothFreeMyOnly(myBusy, targetBusy, number) == number \notin myBusy

\* Both groups must be free for this pair.
BothFree(myBusy, targetBusy, number) ==
  number \notin myBusy /\ number \notin targetBusy

\* The inner loop over PAIR_TIMES for one date.
RECURSIVE FreePairsOfDate(_, _, _, _, _)
FreePairsOfDate(date, myBusy, targetBusy, p, freeSlots) ==
  IF p > Len(PAIR_TIMES) THEN freeSlots
  ELSE FreePairsOfDate(date, myBusy, targetBusy, p + 1,
         IF BothFree(myBusy, targetBusy, PAIR_TIMES[p])
           THEN Append(freeSlots, [date |-> date, dayName |-> GetDayName(date),
                                   pairNumber |-> PAIR_TIMES[p]])
           ELSE freeSlots)

\* The outer loop over allDates.
RECURSIVE FreeSlotsOfDates(_, _, _, _, _)
FreeSlotsOfDates(allDates, myOccupied, targetOccupied, i, freeSlots) ==
  IF i > Len(allDates) THEN freeSlots
  ELSE FreeSlotsOfDates(allDates, myOccupied, targetOccupied, i + 1,
         FreePairsOfDate(allDates[i], Busy(myOccupied, allDates[i]),
                         Busy(targetOccupied, allDates[i]), 1, freeSlots))

findFreeSlots(myEntries, targetEntries, dateFrom, dateTo) ==
  FreeSlotsOfDates(dateRange(dateFrom, dateTo, TRUE),
                   ComparatorBuildOccupiedMap(myEntries),
                   ComparatorBuildOccupiedMap(targetEntries), 1, << >>)

(***************************************************************************)
(* ScheduleComparator.getISOWeek and suggestSlots.                         *)
(***************************************************************************)
\* The key "YYYY-Www" as the number YYYY * 100 + ww; "NaN-WNaN" is NaN.
WeekKey(year, weekNo) == year * 100 + weekNo

\* Math.round(num / den) for den > 0: the nearest integer, halves upwards.
MathRound(num, den) == (2 * num + den) \div (2 * den)

getISOWeek(dateStr) ==
  LET d0 == NewDate(dateStr)
  IN  IF d0 = InvalidDate THEN NaN
      ELSE LET \* d.setHours(0, 0, 0, 0)
               d1    == UTC((LocalTime(d0) \div 24) * 24)
               \* Thursday of current week determines the year
               d     == AddDays(d1, 3 - ((GetDay(d1) + 6) % 7))
               year  == CivilYearMonth(LocalTime(d) \div 24)[1]
               \* new Date(d.getFullYear(), 0, 4)
               week1 == UTC(DaysFromCivil(year, 1, 4) * 24)
               \* ((d - week1) / 86400000 - 3 + ((week1.getDay() + 6) % 7)) / 7
               weekNo == 1 + MathRound((d - week1) - 3 * 24
                                         + 24 * ((GetDay(week1) + 6) % 7), 7 * 24)
           IN  WeekKey(year, weekNo)

\* slot.date.substring(0, 7): "YYYY-MM" as YYYY * 100 + MM; the prefix of
\* "NaN-NaN-NaN" is "NaN-NaN" and that of '' is ''.
MonthPrefix(date) ==
  IF date = NaNDate THEN NaN
  ELSE IF date = EmptyDate THEN EmptyDate
  ELSE CivilYearMonth(date)[1] * 100 + CivilYearMonth(date)[2]

Strategies == {"first-per-week", "first-per-month", "all"}

\* let key: it stays undefined when the strategy is neither of the two.
SlotKey(slot, strategy) ==
  IF strategy = "first-per-week" THEN <<"week", getISOWeek(slot.date)>>
  ELSE IF strategy = "first-per-month" THEN <<"month", MonthPrefix(slot.date)>>
  ELSE <<"undefined", 0>>

\* The object grouped as the list of its properties <<key, slot>> in the order
\* they were created.  None of the keys is an array index, so this is also
\* the order in which Object.values lists them.
HasKey(grouped, key) == \E k \in DOMAIN grouped : grouped[k][1] = key

\* A faulty assignment: "grouped[key] = slot" without the test, which leaves
\* the last slot of a bucket in the place of the first.
GroupedPutAlways(grouped, key, slot) ==
  IF HasKey(grouped, key)
    THEN [k \in DOMAIN grouped |->
            IF grouped[k][1] = key THEN <<key, slot>> ELSE grouped[k]]
    ELSE Append(grouped, <<key, slot>>)

\* if (!grouped[key]) grouped[key] = slot
GroupedPut(grouped, key, slot) ==
  IF HasKey(grouped, key) THEN grouped ELSE Append(grouped, <<key, slot>>)

\* The for loop of suggestSlots.
RECURSIVE GroupSlots(_, _, _, _)
GroupSlots(freeSlots, strategy, i, grouped) ==
  IF i > Len(freeSlots) THEN grouped
  ELSE GroupSlots(freeSlots, strategy, i + 1,
         GroupedPut(grouped, SlotKey(freeSlots[i], strategy), freeSlots[i]))

ObjectValues(grouped) == [k \in DOMAIN grouped |-> grouped[k][2]]

\* A faulty suggestSlots: the test for 'all' is missing.
suggestSlotsWithoutAll(freeSlots, strategy) ==
  ObjectValues(GroupSlots(freeSlots, strategy, 1, << >>))

suggestSlots(freeSlots, strategy) ==
  IF strategy = "all" THEN freeSlots
  ELSE ObjectValues(GroupSlots(freeSlots, strategy, 1, << >>))

(***************************************************************************)
(* The content script's helpers of the allocator.                          *)
(***************************************************************************)
\* getWeekDates: the Monday..Friday of the week containing dateStr.  With an
\* Invalid Date, getDay() is NaN, setDate(NaN) leaves an Invalid Date and
\* every formatted date is "NaN-NaN-NaN".
getWeekDates(dateStr) ==
  LET d      == NewDate(dateStr)
      day    == GetDay(d)
      monday == IF d = InvalidDate THEN InvalidDate
                ELSE AddDays(d, 0 - ((day + 6) % 7))
  IN  [i \in 1..5 |-> FormatDate(AddDays(monday, i - 1))]

\* The content script's buildOccupiedMap: entries without a date are skipped
\* ("if (!entry.date) continue").
buildOccupiedMap(entries) ==
  [d \in DatesOf(entries) \ {EmptyDate} |-> PairsOn(entries, d)]

\* A faulty map: the lessons of the batch are left out.
TeacherOccupiedWithoutBatch(entries) == EmptyMap

\* "Build teacher's occupied map from the lessons array itself": the loop of
\* the handler, which does not skip an empty date.
TeacherOccupied(entries) ==
  [d \in DatesOf(entries) |-> PairsOn(entries, d)]

\* found = null
NullSlot == [date |-> EmptyDate, dayName |-> NaN, pairNumber |-> 0]

\* The condition of the scan: the pair is free for the teacher and the group,
\* in the real and in the virtual schedule.
SlotIsFree(teacherBusy, groupBusy, vTeacherBusy, vGroupBusy, number) ==
  /\ number \notin teacherBusy
  /\ number \notin groupBusy
  /\ number \notin vTeacherBusy
  /\ number \notin vGroupBusy

\* The inner loop over PAIR_TIMES for the date d: the first free pair, or null.
RECURSIVE ScanPairs(_, _, _, _, _, _)
ScanPairs(d, teacherBusy, groupBusy, vTeacherBusy, vGroupBusy, p) ==
  IF p > Len(PAIR_TIMES) THEN NullSlot
  ELSE IF SlotIsFree(teacherBusy, groupBusy, vTeacherBusy, vGroupBusy, PAIR_TIMES[p])
    THEN [date |-> d, dayName |-> GetDayName(d), pairNumber |-> PAIR_TIMES[p]]
    ELSE ScanPairs(d, teacherBusy, groupBusy, vTeacherBusy, vGroupBusy, p + 1)

\* The outer loop over weekDates, left at the first date with a free pair.
RECURSIVE ScanDates(_, _, _, _, _, _)
ScanDates(weekDates, tOcc, gOcc, vTeacher, vGroupOfLesson, i) ==
  IF i > Len(weekDates) THEN NullSlot
  ELSE LET d     == weekDates[i]
           found == ScanPairs(d, Busy(tOcc, d), Busy(gOcc, d),
                              Busy(vTeacher, d), Busy(vGroupOfLesson, d), 1)
       IN  IF found # NullSlot THEN found
           ELSE ScanDates(weekDates, tOcc, gOcc, vTeacher, vGroupOfLesson, i + 1)

\* groupSchedules[lesson.group] ? buildOccupiedMap(groupSched.entries) : {}
GroupOccupied(schedules, group) ==
  IF group \in DOMAIN schedules THEN buildOccupiedMap(schedules[group]) ELSE EmptyMap

\* virtualGroup[lesson.group], {} when first touched.
VirtualOf(vGroup, group) ==
  IF group \in DOMAIN vGroup THEN vGroup[group] ELSE EmptyMap

\* A faulty scan: a lesson whose group has no fetched schedule gets no slot.
FindSlotSkippingUnknownGroup(lesson, tOcc, schedules, vTeacher, vGroup) ==
  IF lesson.group \notin DOMAIN schedules THEN NullSlot
  ELSE ScanDates(getWeekDates(lesson.date), tOcc, GroupOccupied(schedules, lesson.group),
                 vTeacher, VirtualOf(vGroup, lesson.group), 1)

\* The slot found for one lesson under the ledgers as they stand.
FindSlot(lesson, tOcc, schedules, vTeacher, vGroup) ==
  ScanDates(getWeekDates(lesson.date), tOcc, GroupOccupied(schedules, lesson.group),
            vTeacher, VirtualOf(vGroup, lesson.group), 1)

\* A faulty reservation: the teacher's ledger is left as it was.
ReserveTeacherForgets(vTeacher, found) == vTeacher

\* "Reserve the assigned slot in the virtual schedule": the teacher's ledger.
ReserveTeacher(vTeacher, found) ==
  IF found # NullSlot THEN MapAdd(vTeacher, found.date, found.pairNumber)
  ELSE vTeacher

\* ... and the ledger of the lesson's group, created when first touched.
ReserveGroup(vGroup, group, found) ==
  (group :> (IF found # NullSlot
               THEN MapAdd(VirtualOf(vGroup, group), found.date, found.pairNumber)
               ELSE VirtualOf(vGroup, group))) @@ vGroup

(***************************************************************************)
(* The server, as the scripts see it through fetch.                        *)
(***************************************************************************)
SeqToSet(q) == {q[i] : i \in DOMAIN q}

\* Every lesson the server holds: the teacher's and the other teachers'.
ServerLessons == teacherMonth \o otherLessons

\* Every lesson the group really has, with whichever teacher.
GroupRealLessons(group) == {e \in SeqToSet(ServerLessons) : e.group = group}

\* fetchAndParseSchedule({klassId, dateFrom, dateTo}): the rows the server
\* lists for the group and the date range.  A row without a parsed date is
\* left out; buildOccupiedMap would skip it.
fetchAndParseSchedule(group, dateFrom, dateTo) ==
  LET Listed(e) == e.group = group /\ dateFrom <= e.date /\ e.date <= dateTo
  IN  SelectSeq(ServerLessons, Listed)

\* lessons.map(l => l.date).filter(Boolean): the dates of the batch.
BatchDates(batch) == {batch[i].date : i \in DOMAIN batch} \ {EmptyDate}

MinOf(S) == CHOOSE x \in S : \A y \in S : x <= y
MaxOf(S) == CHOOSE x \in S : \A y \in S : y <= x

\* The loop over uniqueGroups: a group whose name is among the filter's options
\* gets its schedule for [minDate, maxDate]; any other group gets no entry.
FetchGroupSchedules(batch) ==
  LET uniqueGroups == {batch[i].group : i \in DOMAIN batch}
      minDate      == MinOf(BatchDates(batch))
      maxDate      == MaxOf(BatchDates(batch))
  IN  [g \in uniqueGroups \cap filterGroups |->
         fetchAndParseSchedule(g, minDate, maxDate)]

(***************************************************************************)
(* The report workflow: popup and FIND_SLOTS_FOR_LESSONS handler.          *)
(***************************************************************************)
NoResponse == [kind |-> "none", slotCount |-> 0]

\* The three cards of the popup that the steps show and hide.
Cards == {"filters-card", "lessons-card", "result-card"}

\* fetchMonthSchedule: FETCH_MONTH_SCHEDULE answers with the teacher's entries.
FetchMonthSchedule ==
  /\ pc = "month"
  /\ fetchedEntries' = teacherMonth
  /\ hiddenCards' = IF teacherMonth = << >> THEN hiddenCards
                    ELSE (hiddenCards \ {"filters-card"}) \cup {"lessons-card", "result-card"}
  /\ pc' = IF teacherMonth = << >> THEN "month" ELSE "filters"
  /\ UNCHANGED <<extVars, pages, utilVars, tz, cmpVars, serverVars, filteredLessons, lastResults,
                 handlerVars, prevResults, calls>>

\* fetchedEntries.filter(e => selGroups.includes(e.group) &&
\*                            selSubjects.includes(e.subject))
FilterEntries(entries, selGroups, selSubjects) ==
  LET RECURSIVE Keep(_, _)
      Keep(i, acc) ==
        IF i > Len(entries) THEN acc
        ELSE Keep(i + 1,
               IF entries[i].group \in selGroups /\ entries[i].subject \in selSubjects
                 THEN Append(acc, entries[i]) ELSE acc)
  IN  Keep(1, << >>)

\* applyFilters with the options selected in the two multiselects.
ApplyFilters ==
  /\ pc = "filters"
  /\ \E selGroups \in SUBSET {fetchedEntries[i].group : i \in DOMAIN fetchedEntries},
        selSubjects \in SUBSET {fetchedEntries[i].subject : i \in DOMAIN fetchedEntries} :
       /\ filteredLessons' = FilterEntries(fetchedEntries, selGroups, selSubjects)
       /\ hiddenCards' = IF filteredLessons' = << >>
                           THEN hiddenCards \cup {"lessons-card"}
                           ELSE (hiddenCards \ {"lessons-card"}) \cup {"result-card"}
       /\ pc' = IF filteredLessons' = << >> THEN "filters" ELSE "lessons"
  /\ UNCHANGED <<extVars, pages, utilVars, tz, cmpVars, serverVars, fetchedEntries, lastResults,
                 handlerVars, prevResults, calls>>

\* The checked boxes of the lesson list, in list order.
CheckedLessons(list, checked) ==
  LET RECURSIVE Pick(_, _)
      Pick(i, acc) ==
        IF i > Len(list) THEN acc
        ELSE Pick(i + 1, IF i \in checked THEN Append(acc, list[i]) ELSE acc)
  IN  Pick(1, << >>)

\* findAvailableSlots: nothing is sent when no box is checked; otherwise the
\* checked lessons go out as FIND_SLOTS_FOR_LESSONS.
findAvailableSlots ==
  /\ pc = "lessons"
  /\ calls < MaxCalls
  /\ \E checked \in SUBSET (DOMAIN filteredLessons) :
       /\ checked # {}
       /\ lessons' = CheckedLessons(filteredLessons, checked)
  /\ calls' = calls + 1
  /\ pc' = "sent"
  /\ UNCHANGED <<extVars, hiddenCards, pages, utilVars, tz, cmpVars, serverVars, popupVars,
                 groupSchedules, teacherOccupied,
                 virtualTeacher, virtualGroup, results, li, response, prevResults>>

\* A faulty handler: the virtual ledgers live outside the call and keep the
\* reservations of the call before.
HandleFindSlotsBeginKeepingLedgers ==
  /\ pc = "sent"
  /\ IF Len(lessons) = 0 \/ BatchDates(lessons) = {}
       THEN /\ response' = [kind |-> "error", slotCount |-> 0]
            /\ pc' = "error"
            /\ UNCHANGED <<groupSchedules, teacherOccupied, virtualTeacher,
                           virtualGroup, results, li>>
       ELSE /\ groupSchedules' = FetchGroupSchedules(lessons)
            /\ teacherOccupied' = TeacherOccupied(lessons)
            /\ UNCHANGED <<virtualTeacher, virtualGroup>>
            /\ results' = << >>
            /\ li' = 1
            /\ response' = NoResponse
            /\ pc' = "scan"
  /\ UNCHANGED <<extVars, hiddenCards, pages, utilVars, tz, cmpVars, serverVars, popupVars,
                 lessons, prevResults, calls>>

\* handleFindSlotsForLessons up to its for loop: the checks, the group
\* schedules, the teacher's map and the two fresh virtual ledgers.
HandleFindSlotsBegin ==
  /\ pc = "sent"
  /\ IF Len(lessons) = 0 \/ BatchDates(lessons) = {}
       THEN /\ response' = [kind |-> "error", slotCount |-> 0]
            /\ pc' = "error"
            /\ UNCHANGED <<groupSchedules, teacherOccupied, virtualTeacher,
                           virtualGroup, results, li>>
       ELSE /\ groupSchedules' = FetchGroupSchedules(lessons)
            /\ teacherOccupied' = TeacherOccupied(lessons)
            /\ virtualTeacher' = EmptyMap
            /\ virtualGroup' = EmptyMap
            /\ results' = << >>
            /\ li' = 1
            /\ response' = NoResponse
            /\ pc' = "scan"
  /\ UNCHANGED <<extVars, hiddenCards, pages, utilVars, tz, cmpVars, serverVars, popupVars,
                 lessons, prevResults, calls>>

\* A faulty pass: a lesson without a free slot is left out of the results.
ScanLessonDroppingNull ==
  /\ pc = "scan"
  /\ li <= Len(lessons)
  /\ LET lesson == lessons[li]
         found  == FindSlot(lesson, teacherOccupied, groupSchedules,
                            virtualTeacher, virtualGroup)
     IN  /\ virtualTeacher' = ReserveTeacher(virtualTeacher, found)
         /\ virtualGroup' = ReserveGroup(virtualGroup, lesson.group, found)
         /\ results' = IF found = NullSlot THEN results
                       ELSE Append(results, [lesson |-> lesson, slot |-> found])
  /\ li' = li + 1
  /\ UNCHANGED <<extVars, hiddenCards, pages, utilVars, tz, cmpVars, serverVars, popupVars,
                 lessons, groupSchedules,
                 teacherOccupied, response, prevResults, calls, pc>>

\* One pass of "for (const lesson of lessons)": scan, reserve, push.
ScanLesson ==
  /\ pc = "scan"
  /\ li <= Len(lessons)
  /\ LET lesson == lessons[li]
         found  == FindSlot(lesson, teacherOccupied, groupSchedules,
                            virtualTeacher, virtualGroup)
     IN  /\ virtualTeacher' = ReserveTeacher(virtualTeacher, found)
         /\ virtualGroup' = ReserveGroup(virtualGroup, lesson.group, found)
         /\ results' = Append(results, [lesson |-> lesson, slot |-> found])
  /\ li' = li + 1
  /\ UNCHANGED <<extVars, hiddenCards, pages, utilVars, tz, cmpVars, serverVars, popupVars,
                 lessons, groupSchedules,
                 teacherOccupied, response, prevResults, calls, pc>>

\* The handler returns { success, slotCount, results } and the popup stores
\* the results.
HandleFindSlotsReturn ==
  /\ pc = "scan"
  /\ li > Len(lessons)
  /\ response' = [kind |-> "success",
                  slotCount |-> Cardinality({i \in DOMAIN results :
                                               results[i].slot # NullSlot})]
  /\ lastResults' = results
  /\ hiddenCards' = hiddenCards \ {"result-card"}
  /\ pc' = "done"
  /\ UNCHANGED <<extVars, pages, utilVars, tz, cmpVars, serverVars, fetchedEntries,
                 filteredLessons, lessons,
                 groupSchedules, teacherOccupied, virtualTeacher, virtualGroup,
                 results, li, prevResults, calls>>

\* The button is pressed again with the check boxes left as they are: the
\* same lessons go out in a second FIND_SLOTS_FOR_LESSONS message.
FindAgain ==
  /\ pc = "done"
  /\ calls < MaxCalls
  /\ prevResults' = results
  /\ calls' = calls + 1
  /\ pc' = "sent"
  /\ UNCHANGED <<extVars, hiddenCards, pages, utilVars, tz, cmpVars, serverVars, popupVars,
                 handlerVars>>

\* const steps = ['filters', 'lessons', 'result']; steps.indexOf(step),
\* counted from 0, and -1 for a step that is not in the list.
StepIndex(step) ==
  CASE step = "filters" -> 0
    [] step = "lessons" -> 1
    [] step = "result" -> 2
    [] OTHER -> 0 - 1

\* The cards of the steps from index idx on.
CardsFrom(idx) ==
  (IF idx <= 0 THEN {"filters-card"} ELSE {}) \cup
  (IF idx <= 1 THEN {"lessons-card"} ELSE {}) \cup {"result-card"}

\* Where the workflow stands once the steps from idx on have been reset.
PcAfterReset(idx) ==
  IF idx <= 0 THEN "month"
  ELSE IF idx = 1 THEN (IF pc = "month" THEN pc ELSE "filters")
  ELSE IF pc \in {"done", "error"} THEN "lessons" ELSE pc

\* A faulty resetFrom: the result step hides its card and keeps lastResults.
resetFromKeepingResults(step) ==
  /\ pc \in {"month", "filters", "lessons", "done", "error"}
  /\ called' = "resetFrom"
  /\ args' = <<step>>
  /\ returned' = << >>
  /\ LET idx == StepIndex(step)
     IN  IF idx < 0
           THEN UNCHANGED <<popupVars, hiddenCards, pc>>
           ELSE /\ hiddenCards' = hiddenCards \cup CardsFrom(idx)
                /\ fetchedEntries' = IF idx <= 0 THEN << >> ELSE fetchedEntries
                /\ filteredLessons' = IF idx <= 1 THEN << >> ELSE filteredLessons
                /\ UNCHANGED lastResults
                /\ pc' = PcAfterReset(idx)
  /\ UNCHANGED <<extVars, pages, tz, cmpVars, serverVars, handlerVars, prevResults, calls>>

\* resetFrom(step), called by the change listeners of bindEvents while no
\* request of the popup is in flight.
resetFrom(step) ==
  /\ pc \in {"month", "filters", "lessons", "done", "error"}
  /\ called' = "resetFrom"
  /\ args' = <<step>>
  /\ returned' = << >>
  /\ LET idx == StepIndex(step)
     IN  IF idx < 0
           THEN UNCHANGED <<popupVars, hiddenCards, pc>>
           ELSE /\ hiddenCards' = hiddenCards \cup CardsFrom(idx)
                /\ fetchedEntries' = IF idx <= 0 THEN << >> ELSE fetchedEntries
                /\ filteredLessons' = IF idx <= 1 THEN << >> ELSE filteredLessons
                /\ lastResults' = IF idx <= 2 THEN << >> ELSE lastResults
                /\ pc' = PcAfterReset(idx)
  /\ UNCHANGED <<extVars, pages, tz, cmpVars, serverVars, handlerVars, prevResults, calls>>

(***************************************************************************)
(* Inputs of the allocator: the week of Monday 2026-02-09.                 *)
(***************************************************************************)
Monday0209 == DaysFromCivil(2026, 2, 9)

Lesson(d, p, g, s) == [date |-> d, pairNumber |-> p, group |-> g, subject |-> s]

\* Lessons the teacher can have in the month.
TeacherPool ==
  {Lesson(Monday0209, 1, "G2", "S2"),
   Lesson(Monday0209, 2, "G1", "S1"),
   Lesson(Monday0209, 3, "G1", "S1"),
   Lesson(Monday0209, 4, "G1", "S2"),
   Lesson(Monday0209 + 4, 1, "G2", "S1"),
   Lesson(EmptyDate, 1, "G1", "S1"),
   Lesson(Monday0209 + 7, 1, "G1", "S1")}

\* What the groups have with other teachers: nothing, one lesson of G2 on
\* Monday, a full Monday of G1, or a full week of G1.
OtherLessonsChoices ==
  {<< >>,
   <<Lesson(Monday0209, 1, "G2", "S3")>>,
   [i \in 1..NumPairs |-> Lesson(Monday0209, i, "G1", "S3")],
   [i \in 1..(5 * NumPairs) |->
      Lesson(Monday0209 + ((i - 1) \div NumPairs), ((i - 1) % NumPairs) + 1, "G1", "S3")]}

SeqsUpTo(S, n) == UNION {[1..k -> S] : k \in 0..n}

InjectiveSeqs(S, n) ==
  {q \in UNION {[1..k -> S] : k \in 1..n} : \A i, j \in DOMAIN q : i # j => q[i] # q[j]}

AllocInit ==
  /\ teacherMonth \in InjectiveSeqs(TeacherPool, MaxLessons)
  /\ otherLessons \in OtherLessonsChoices
  /\ filterGroups \in {{"G1", "G2"}, {"G2"}}
  /\ fetchedEntries = << >>
  /\ filteredLessons = << >>
  /\ lastResults = << >>
  /\ hiddenCards = Cards
  /\ lessons = << >>
  /\ groupSchedules = EmptyMap
  /\ teacherOccupied = EmptyMap
  /\ virtualTeacher = EmptyMap
  /\ virtualGroup = EmptyMap
  /\ results = << >>
  /\ li = 1
  /\ response = NoResponse
  /\ prevResults = << >>
  /\ calls = 0
  /\ pc = "month"

\* The allocator at rest, for the specifications that do not run it.
AllocIdle ==
  /\ teacherMonth = << >>
  /\ otherLessons = << >>
  /\ filterGroups = {}
  /\ fetchedEntries = << >>
  /\ filteredLessons = << >>
  /\ lastResults = << >>
  /\ hiddenCards = Cards
  /\ lessons = << >>
  /\ groupSchedules = EmptyMap
  /\ teacherOccupied = EmptyMap
  /\ virtualTeacher = EmptyMap
  /\ virtualGroup = EmptyMap
  /\ results = << >>
  /\ li = 1
  /\ response = NoResponse
  /\ prevResults = << >>
  /\ calls = 0
  /\ pc = "idle"

\* No helper called and no report built.
UtilIdle ==
  /\ called = "none"
  /\ args = << >>
  /\ returned = << >>
  /\ pages = << >>

\* The background worker with no message to forward.
FwdIdle ==
  /\ fwdPc = "idle"
  /\ fwdAction = "none"
  /\ fwdTab = "none"
  /\ fwdSends = << >>
  /\ fwdInjected = 0
  /\ fwdResponses = << >>

\* const state = { mySchedule: null, targetSchedule: null, ... }
Null == [null |-> TRUE]

\* What a handler of the content script returns.
Returns(action, kind, slots, totalFree) ==
  [to |-> action, kind |-> kind, slots |-> slots, totalFree |-> totalFree]

\* The content script as it is loaded, before any message.
ContentLoaded ==
  /\ mySchedule = Null
  /\ targetSchedule = Null
  /\ stateFreeSlots = << >>
  /\ selectedSlots = << >>
  /\ parsePc = [r \in 1..MaxMessages |-> "idle"]
  /\ parsePayload = [r \in 1..MaxMessages |-> Null]
  /\ fetched = << >>
  /\ cacheMsgs = << >>
  /\ csResponse = Returns("none", "none", << >>, 0)
  /\ generated = << >>
  /\ delivered = << >>
  /\ csHandled = 0

\* fetchLessonDetails not called.
DetailsIdle ==
  /\ detailEntries = << >>
  /\ detailPc = "idle"
  /\ detailI = 0
  /\ detailDone = 0
  /\ inFlight = {}
  /\ requested = {}
  /\ anyFailed = FALSE
  /\ progress = << >>

\* handleFetchMonthSchedule before its first fetch.
PagesIdle ==
  /\ pagePc = "idle"
  /\ totalRecords = 0
  /\ collected = 0
  /\ page = 2
  /\ pageLog = << >>
  /\ pageOutcome = [kind |-> "none", entries |-> 0]

\* The two CACHE_SCHEDULE messages of a parse, by the group id they carry.
CacheMessages == {"G1", "G2"}

\* An empty cache and no CACHE_SCHEDULE message.
CacheIdle ==
  /\ cachedSchedules = EmptyMap
  /\ cachePc = [m \in CacheMessages |-> "idle"]
  /\ cacheLocal = [m \in CacheMessages |-> EmptyMap]

\* The machines outside the report workflow at rest.
ExtIdle == FwdIdle /\ ContentLoaded /\ DetailsIdle /\ PagesIdle /\ CacheIdle

\* The comparator at rest.
CmpIdle ==
  /\ cmpMy = << >>
  /\ cmpTarget = << >>
  /\ cmpFrom = EmptyDate
  /\ cmpTo = EmptyDate
  /\ cmpSlots = << >>
  /\ cmpPc = "idle"

\* Every machine at rest, in any time zone.
InitAtRest == tz \in TimeZones /\ CmpIdle /\ UtilIdle /\ ExtIdle /\ AllocIdle

InitAllocator == tz \in TimeZones /\ CmpIdle /\ UtilIdle /\ ExtIdle /\ AllocInit

NextAllocator ==
  \/ FetchMonthSchedule
  \/ ApplyFilters
  \/ findAvailableSlots
  \/ HandleFindSlotsBegin
  \/ ScanLesson
  \/ HandleFindSlotsReturn
  \/ FindAgain

SpecAllocator == InitAllocator /\ [][NextAllocator]_vars

(***************************************************************************)
(* The popup with its change listeners: the report workflow, and at any    *)
(* moment between two requests a reset from one of the steps.              *)
(***************************************************************************)
ResetSteps == {"filters", "lessons", "result", "unknown"}

\* Months the popup is opened on: one lesson, or two lessons of two groups.
PopupMonths ==
  {<<Lesson(Monday0209, 2, "G1", "S1")>>,
   <<Lesson(Monday0209, 1, "G2", "S2"), Lesson(Monday0209, 2, "G1", "S1")>>}

PopupInit ==
  /\ teacherMonth \in PopupMonths
  /\ otherLessons \in {<< >>, <<Lesson(Monday0209, 1, "G2", "S3")>>}
  /\ filterGroups = {"G1", "G2"}
  /\ fetchedEntries = << >>
  /\ filteredLessons = << >>
  /\ lastResults = << >>
  /\ hiddenCards = Cards
  /\ lessons = << >>
  /\ groupSchedules = EmptyMap
  /\ teacherOccupied = EmptyMap
  /\ virtualTeacher = EmptyMap
  /\ virtualGroup = EmptyMap
  /\ results = << >>
  /\ li = 1
  /\ response = NoResponse
  /\ prevResults = << >>
  /\ calls = 0
  /\ pc = "month"

InitPopup == tz \in TimeZones /\ CmpIdle /\ UtilIdle /\ ExtIdle /\ PopupInit

NextPopup ==
  \/ NextAllocator
  \/ \E step \in ResetSteps : resetFrom(step)

SpecPopup == InitPopup /\ [][NextPopup]_vars

(***************************************************************************)
(* The handler on its own: chrome.runtime.onMessage hands it the payload   *)
(* of any FIND_SLOTS_FOR_LESSONS message, whoever sent it, so the batch is *)
(* any array of lessons, the empty one included.                           *)
(***************************************************************************)
HandlerInit ==
  /\ teacherMonth = << >>
  /\ otherLessons \in OtherLessonsChoices
  /\ filterGroups = {}
  /\ fetchedEntries = << >>
  /\ filteredLessons = << >>
  /\ lastResults = << >>
  /\ hiddenCards = Cards
  /\ lessons \in SeqsUpTo(TeacherPool, MaxLessons)
  /\ groupSchedules = EmptyMap
  /\ teacherOccupied = EmptyMap
  /\ virtualTeacher = EmptyMap
  /\ virtualGroup = EmptyMap
  /\ results = << >>
  /\ li = 1
  /\ response = NoResponse
  /\ prevResults = << >>
  /\ calls = 1
  /\ pc = "sent"

InitHandler == tz \in TimeZones /\ CmpIdle /\ UtilIdle /\ ExtIdle /\ HandlerInit

NextHandler ==
  \/ HandleFindSlotsBegin
  \/ ScanLesson
  \/ HandleFindSlotsReturn

SpecHandler == InitHandler /\ [][NextHandler]_vars

(***************************************************************************)
(* The background service worker forwarding one message of the popup to    *)
(* the content script of the active tab.                                   *)
(***************************************************************************)
ForwardedActions ==
  {"PARSE_SCHEDULE", "GENERATE_REPORT", "FIND_FREE_SLOTS", "LOAD_FILTERS",
   "FETCH_MONTH_SCHEDULE", "GET_CURRENT_USER", "FIND_SLOTS_FOR_LESSONS",
   "FETCH_LESSON_DETAILS"}

\* What the content script can pass to its sendResponse.
ContentResponses == {"success", "error", "undefined"}

FromContent(r) == [from |-> "content", value |-> r]

FromBackground(e) == [from |-> "background", value |-> e]

\* The router: a forwarded action calls forwardToContentScript and keeps the
\* channel open.
OnMessageForward ==
  /\ fwdPc = "idle"
  /\ fwdAction' \in ForwardedActions
  /\ fwdPc' = "query"
  /\ UNCHANGED <<fwdTab, fwdSends, fwdInjected, fwdResponses, baseVars, contentVars,
                 detailVars, pageVars>>

\* The callback of chrome.tabs.query: no active tab, a tab elsewhere (or
\* without a url), or a tab on the Smart School host.
TabsQueryCallback ==
  /\ fwdPc = "query"
  /\ fwdTab' \in {"no-tab", "other-site", "smart-school"}
  /\ IF fwdTab' = "no-tab"
       THEN /\ fwdResponses' = Append(fwdResponses, FromBackground("no active tab"))
            /\ fwdPc' = "done"
       ELSE IF fwdTab' = "other-site"
       THEN /\ fwdResponses' = Append(fwdResponses, FromBackground("open Smart School"))
            /\ fwdPc' = "done"
       ELSE /\ UNCHANGED fwdResponses
            /\ fwdPc' = "send"
  /\ UNCHANGED <<fwdAction, fwdSends, fwdInjected, baseVars, contentVars, detailVars, pageVars>>

\* A faulty first send: a failure is reported to the popup and the
\* injection is tried all the same.
FirstSendReportingFailure ==
  /\ fwdPc = "send"
  /\ \E outcome \in ContentResponses \cup {"rejected"} :
       /\ fwdSends' = Append(fwdSends, outcome)
       /\ IF outcome = "rejected"
            THEN /\ fwdResponses' = Append(fwdResponses, FromBackground("send failed"))
                 /\ fwdPc' = "inject"
            ELSE /\ fwdResponses' = Append(fwdResponses, FromContent(outcome))
                 /\ fwdPc' = "done"
  /\ UNCHANGED <<fwdAction, fwdTab, fwdInjected, baseVars, contentVars, detailVars, pageVars>>

\* try { response = await sendMessageToTab(...); sendResponse(response) }:
\* the promise resolves with the content script's response or rejects when
\* chrome.runtime.lastError is set.
FirstSend ==
  /\ fwdPc = "send"
  /\ \E outcome \in ContentResponses \cup {"rejected"} :
       /\ fwdSends' = Append(fwdSends, outcome)
       /\ IF outcome = "rejected"
            THEN /\ UNCHANGED fwdResponses
                 /\ fwdPc' = "inject"
            ELSE /\ fwdResponses' = Append(fwdResponses, FromContent(outcome))
                 /\ fwdPc' = "done"
  /\ UNCHANGED <<fwdAction, fwdTab, fwdInjected, baseVars, contentVars, detailVars, pageVars>>

\* await chrome.scripting.executeScript(...) inside the inner try.
ExecuteScript ==
  /\ fwdPc = "inject"
  /\ fwdInjected' = fwdInjected + 1
  /\ \E ok \in BOOLEAN :
       IF ok
         THEN /\ UNCHANGED fwdResponses
              /\ fwdPc' = "css"
         ELSE /\ fwdResponses' = Append(fwdResponses, FromBackground("injection failed"))
              /\ fwdPc' = "done"
  /\ UNCHANGED <<fwdAction, fwdTab, fwdSends, baseVars, contentVars, detailVars, pageVars>>

\* await chrome.scripting.insertCSS(...) and the 100 ms wait.
InsertCSS ==
  /\ fwdPc = "css"
  /\ \E ok \in BOOLEAN :
       IF ok
         THEN /\ UNCHANGED fwdResponses
              /\ fwdPc' = "retry"
         ELSE /\ fwdResponses' = Append(fwdResponses, FromBackground("injection failed"))
              /\ fwdPc' = "done"
  /\ UNCHANGED <<fwdAction, fwdTab, fwdSends, fwdInjected, baseVars, contentVars, detailVars,
                 pageVars>>

\* The retry of the message after the injection.
RetrySend ==
  /\ fwdPc = "retry"
  /\ \E outcome \in ContentResponses \cup {"rejected"} :
       /\ fwdSends' = Append(fwdSends, outcome)
       /\ fwdResponses' =
            Append(fwdResponses, IF outcome = "rejected"
                                   THEN FromBackground("injection failed")
                                   ELSE FromContent(outcome))
  /\ fwdPc' = "done"
  /\ UNCHANGED <<fwdAction, fwdTab, fwdInjected, baseVars, contentVars, detailVars, pageVars>>

NextForward ==
  \/ OnMessageForward
  \/ TabsQueryCallback
  \/ FirstSend
  \/ ExecuteScript
  \/ InsertCSS
  \/ RetrySend

\* Chrome calls every callback it was handed and settles every promise, so
\* a step of the forwarding that is enabled is taken.
SpecForward == InitAtRest /\ [][NextForward]_vars /\ WF_vars(NextForward)

(***************************************************************************)
(* The content script's handlers of PARSE_SCHEDULE, FIND_FREE_SLOTS and    *)
(* GENERATE_REPORT over its state object.  A handler runs to its first     *)
(* await in one step, so FIND_FREE_SLOTS, GENERATE_REPORT and another      *)
(* PARSE_SCHEDULE can be served between the two fetches of a               *)
(* PARSE_SCHEDULE.                                                         *)
(***************************************************************************)
\* Payloads of PARSE_SCHEDULE: each group id chosen or left empty.
ParsePayloads ==
  {[myGroupId |-> m, targetGroupId |-> t] : m \in {"", "G1"}, t \in {"", "G2"}}

\* Entries a fetched page can parse to.
ParsedEntries ==
  {<< >>,
   <<[date |-> Monday0209 + 4, pairNumber |-> 1]>>,
   <<[date |-> Monday0209 + 4, pairNumber |-> 1], [date |-> Monday0209 + 7, pairNumber |-> 2]>>}

\* A faulty handler: only the first group id is required.
handleParseScheduleCheckingMine(payload) ==
  /\ csHandled < MaxMessages
  /\ csHandled' = csHandled + 1
  /\ IF payload.myGroupId = ""
       THEN /\ csResponse' = Returns("PARSE_SCHEDULE", "error", << >>, 0)
            /\ UNCHANGED <<parsePc, parsePayload>>
       ELSE /\ parsePayload' = [parsePayload EXCEPT ![csHandled'] = payload]
            /\ parsePc' = [parsePc EXCEPT ![csHandled'] = "fetchMy"]
            /\ UNCHANGED csResponse
  /\ UNCHANGED <<mySchedule, targetSchedule, stateFreeSlots, selectedSlots, fetched,
                 cacheMsgs, generated, delivered, baseVars, fwdVars, detailVars, pageVars>>

\* handleParseSchedule up to its first await.
handleParseSchedule(payload) ==
  /\ csHandled < MaxMessages
  /\ csHandled' = csHandled + 1
  /\ IF payload.myGroupId = "" \/ payload.targetGroupId = ""
       THEN /\ csResponse' = Returns("PARSE_SCHEDULE", "error", << >>, 0)
            /\ UNCHANGED <<parsePc, parsePayload>>
       ELSE /\ parsePayload' = [parsePayload EXCEPT ![csHandled'] = payload]
            /\ parsePc' = [parsePc EXCEPT ![csHandled'] = "fetchMy"]
            /\ UNCHANGED csResponse
  /\ UNCHANGED <<mySchedule, targetSchedule, stateFreeSlots, selectedSlots, fetched,
                 cacheMsgs, generated, delivered, baseVars, fwdVars, detailVars, pageVars>>

\* state.mySchedule = await fetchAndParseSchedule({klassId: myGroupId, ...})
\* in the handler of message r; the schedule remembers the message it was
\* fetched for.
ParseFetchMy(r) ==
  /\ parsePc[r] = "fetchMy"
  /\ fetched' = Append(fetched, parsePayload[r].myGroupId)
  /\ \E entries \in ParsedEntries :
       mySchedule' = [groupId |-> parsePayload[r].myGroupId, entries |-> entries,
                      request |-> r]
  /\ parsePc' = [parsePc EXCEPT ![r] = "fetchTarget"]
  /\ UNCHANGED <<targetSchedule, stateFreeSlots, selectedSlots, parsePayload, cacheMsgs,
                 csResponse, generated, delivered, csHandled, baseVars, fwdVars, detailVars, pageVars>>

\* state.targetSchedule = await fetchAndParseSchedule({klassId: targetGroupId,
\* ...}), the two CACHE_SCHEDULE messages and the return.
ParseFetchTarget(r) ==
  /\ parsePc[r] = "fetchTarget"
  /\ fetched' = Append(fetched, parsePayload[r].targetGroupId)
  /\ \E entries \in ParsedEntries :
       targetSchedule' = [groupId |-> parsePayload[r].targetGroupId, entries |-> entries,
                          request |-> r]
  /\ cacheMsgs' = cacheMsgs \o <<parsePayload[r].myGroupId, parsePayload[r].targetGroupId>>
  /\ csResponse' = Returns("PARSE_SCHEDULE", "success", << >>, 0)
  /\ parsePc' = [parsePc EXCEPT ![r] = "idle"]
  /\ UNCHANGED <<mySchedule, stateFreeSlots, selectedSlots, parsePayload, generated,
                 delivered, csHandled, baseVars, fwdVars, detailVars, pageVars>>

\* Date ranges of FIND_FREE_SLOTS: a Friday, the Friday to the Monday after
\* it, and an empty range.
FindPayloads ==
  {[dateFrom |-> Monday0209 + 4, dateTo |-> Monday0209 + 4],
   [dateFrom |-> Monday0209 + 4, dateTo |-> Monday0209 + 7],
   [dateFrom |-> Monday0209 + 7, dateTo |-> Monday0209 + 4]}

\* A faulty handler: every free slot is selected.
handleFindFreeSlotsSelectingAll(payload) ==
  /\ csHandled < MaxMessages
  /\ csHandled' = csHandled + 1
  /\ IF mySchedule = Null \/ targetSchedule = Null
       THEN /\ csResponse' = Returns("FIND_FREE_SLOTS", "error", << >>, 0)
            /\ UNCHANGED <<stateFreeSlots, selectedSlots>>
       ELSE LET allFree == findFreeSlots(mySchedule.entries, targetSchedule.entries,
                                         payload.dateFrom, payload.dateTo)
            IN  /\ stateFreeSlots' = allFree
                /\ selectedSlots' = allFree
                /\ csResponse' = Returns("FIND_FREE_SLOTS", "success",
                                         selectedSlots', Len(allFree))
  /\ UNCHANGED <<mySchedule, targetSchedule, parsePc, parsePayload, fetched,
                 cacheMsgs, generated, delivered, baseVars, fwdVars, detailVars, pageVars>>

handleFindFreeSlots(payload) ==
  /\ csHandled < MaxMessages
  /\ csHandled' = csHandled + 1
  /\ IF mySchedule = Null \/ targetSchedule = Null
       THEN /\ csResponse' = Returns("FIND_FREE_SLOTS", "error", << >>, 0)
            /\ UNCHANGED <<stateFreeSlots, selectedSlots>>
       ELSE LET allFree == findFreeSlots(mySchedule.entries, targetSchedule.entries,
                                         payload.dateFrom, payload.dateTo)
            IN  /\ stateFreeSlots' = allFree
                /\ selectedSlots' = suggestSlots(allFree, "first-per-week")
                /\ csResponse' = Returns("FIND_FREE_SLOTS", "success",
                                         selectedSlots', Len(allFree))
  /\ UNCHANGED <<mySchedule, targetSchedule, parsePc, parsePayload, fetched,
                 cacheMsgs, generated, delivered, baseVars, fwdVars, detailVars, pageVars>>

\* Payloads of GENERATE_REPORT: selectedIndexes, counted from 0, with indexes
\* in and out of range, repeated and out of order, and the format.
ReportPayloads ==
  {[selectedIndexes |-> ix, format |-> f] :
     ix \in {<< >>, <<0>>, <<1, 0>>, <<7>>, <<0 - 1, 1, 7, 0>>, <<0, 0>>},
     f \in {"clipboard", "csv", "preview"}}

\* A faulty selection: the indexes are counted from 1.
PickSlotsFromOne(selectedIndexes, slots) ==
  LET InRange(i) == i \in 1..Len(slots)
      valid == SelectSeq(selectedIndexes, InRange)
  IN  [k \in 1..Len(valid) |-> slots[valid[k]]]

\* selectedIndexes.map(i => state.selectedSlots[i]).filter(Boolean)
PickSlots(selectedIndexes, slots) ==
  LET InRange(i) == i \in 0..(Len(slots) - 1)
      valid == SelectSeq(selectedIndexes, InRange)
  IN  [k \in 1..Len(valid) |-> slots[valid[k] + 1]]

handleGenerateReport(payload) ==
  /\ csHandled < MaxMessages
  /\ csHandled' = csHandled + 1
  /\ LET slots == PickSlots(payload.selectedIndexes, selectedSlots)
     IN  IF Len(slots) = 0
           THEN /\ csResponse' = Returns("GENERATE_REPORT", "error", << >>, 0)
                /\ UNCHANGED <<generated, delivered>>
           ELSE /\ generated' = Append(generated, slots)
                /\ delivered' = IF payload.format = "clipboard"
                                   THEN Append(delivered, "copyToClipboard")
                                 ELSE IF payload.format = "csv"
                                   THEN Append(delivered, "downloadBlob")
                                 ELSE delivered
                /\ csResponse' = Returns("GENERATE_REPORT", "success", slots, 0)
  /\ UNCHANGED <<mySchedule, targetSchedule, stateFreeSlots, selectedSlots, parsePc,
                 parsePayload, fetched, cacheMsgs, baseVars, fwdVars, detailVars, pageVars>>

NextContent ==
  \/ \E payload \in ParsePayloads : handleParseSchedule(payload)
  \/ \E r \in 1..MaxMessages : ParseFetchMy(r)
  \/ \E r \in 1..MaxMessages : ParseFetchTarget(r)
  \/ \E payload \in FindPayloads : handleFindFreeSlots(payload)
  \/ \E payload \in ReportPayloads : handleGenerateReport(payload)

SpecContent == InitAtRest /\ [][NextContent]_vars

(***************************************************************************)
(* fetchLessonDetails: the entries in batches, each request settling on    *)
(* its own.                                                                *)
(***************************************************************************)
BATCH_SIZE == 5

\* entries.slice(i, i + BATCH_SIZE), as the indexes of the entries from 1.
BatchAt(i) == {k \in DOMAIN detailEntries : i < k /\ k <= i + BATCH_SIZE}

\* handleFetchLessonDetails calls fetchLessonDetails with the payload's
\* entries; every fourth entry has no lessonId.
CallFetchLessonDetails ==
  /\ detailPc = "idle"
  /\ \E n \in 1..MaxDetailEntries :
       detailEntries' = [k \in 1..n |-> [lessonId |-> IF k % 4 = 3 THEN 0 ELSE k]]
  /\ detailPc' = "loop"
  /\ UNCHANGED <<detailI, detailDone, inFlight, requested, anyFailed, progress,
                 baseVars, fwdVars, contentVars, pageVars>>

\* The for statement's test, and batch.map(async (entry) => ...) up to the
\* fetch of every entry that has a lessonId.
StartBatch ==
  /\ detailPc = "loop"
  /\ IF detailI < Len(detailEntries)
       THEN LET started == {k \in BatchAt(detailI) : detailEntries[k].lessonId # 0}
            IN  /\ inFlight' = inFlight \cup started
                /\ requested' = requested \cup started
                /\ detailPc' = "await"
       ELSE /\ detailPc' = "done"
            /\ UNCHANGED <<inFlight, requested>>
  /\ UNCHANGED <<detailEntries, detailI, detailDone, anyFailed, progress, baseVars, fwdVars,
                 contentVars, pageVars>>

\* One request settles: a response that is OK, one that is not, or an error
\* that the catch clause logs.
RequestSettles ==
  /\ \E k \in inFlight, outcome \in {"ok", "not ok", "error"} :
       /\ inFlight' = inFlight \ {k}
       /\ anyFailed' = (anyFailed \/ outcome # "ok")
  /\ UNCHANGED <<detailEntries, detailPc, detailI, detailDone, requested, progress,
                 baseVars, fwdVars, contentVars, pageVars>>

\* A faulty loop: the batch is not awaited.
BatchSettledWithoutWaiting ==
  /\ detailPc = "await"
  /\ detailDone' = detailDone + Cardinality(BatchAt(detailI))
  /\ progress' = Append(progress, detailDone')
  /\ detailI' = detailI + BATCH_SIZE
  /\ detailPc' = "loop"
  /\ UNCHANGED <<detailEntries, inFlight, requested, anyFailed, baseVars, fwdVars,
                 contentVars, pageVars>>

\* await Promise.all(promises) resolves once every promise of the batch has;
\* then done += batch.length, onProgress, the sleep and i += BATCH_SIZE.
BatchSettled ==
  /\ detailPc = "await"
  /\ inFlight = {}
  /\ detailDone' = detailDone + Cardinality(BatchAt(detailI))
  /\ progress' = Append(progress, detailDone')
  /\ detailI' = detailI + BATCH_SIZE
  /\ detailPc' = "loop"
  /\ UNCHANGED <<detailEntries, inFlight, requested, anyFailed, baseVars, fwdVars,
                 contentVars, pageVars>>

NextDetails ==
  \/ CallFetchLessonDetails
  \/ StartBatch
  \/ RequestSettles
  \/ BatchSettled

\* Every fetch settles, and a promise that can continue does.
SpecDetails == InitAtRest /\ [][NextDetails]_vars /\ WF_vars(NextDetails)

(***************************************************************************)
(* handleFetchMonthSchedule: the first page and the pagination loop.       *)
(***************************************************************************)
PageLimit == 20

\* Totals the summary line can report: none, and small and large numbers.
ReportedTotals == {0, 1, 3, 100}

\* What a page request can bring: a response that is not OK, a network error,
\* or a page with so many entries.
PageOutcomes ==
  {[kind |-> "not ok", entries |-> 0], [kind |-> "error", entries |-> 0]} \cup
  {[kind |-> "page", entries |-> n] : n \in 0..MaxPageEntries}

\* The first page: fetch, parse, parseTotalRecords and the test before the loop.
FetchFirstPage ==
  /\ pagePc = "idle"
  /\ \E outcome \in PageOutcomes, total \in ReportedTotals :
       /\ pageOutcome' = outcome
       /\ IF outcome.kind # "page"
            THEN /\ pagePc' = "failed"
                 /\ UNCHANGED <<totalRecords, collected>>
            ELSE /\ collected' = outcome.entries
                 /\ totalRecords' = total
                 /\ pagePc' = IF total # 0 /\ total > collected' THEN "loop" ELSE "done"
  /\ UNCHANGED <<page, pageLog, baseVars, fwdVars, contentVars, detailVars>>

\* A faulty loop: the safety limit is missing.
FetchNextPageUnlimited ==
  /\ pagePc = "loop"
  /\ \E outcome \in PageOutcomes :
       /\ pageLog' = Append(pageLog, page)
       /\ pageOutcome' = outcome
       /\ IF outcome.kind = "error"
            THEN /\ pagePc' = "failed"
                 /\ UNCHANGED <<collected, page>>
            ELSE IF outcome.kind = "not ok" \/ outcome.entries = 0
            THEN /\ pagePc' = "done"
                 /\ UNCHANGED <<collected, page>>
            ELSE /\ collected' = collected + outcome.entries
                 /\ page' = page + 1
                 /\ pagePc' = IF collected' < totalRecords THEN "loop" ELSE "done"
  /\ UNCHANGED <<totalRecords, baseVars, fwdVars, contentVars, detailVars>>

\* One pass of while (allEntries.length < totalRecords), from the fetch of
\* the page to the next test of the condition.
FetchNextPage ==
  /\ pagePc = "loop"
  /\ \E outcome \in PageOutcomes :
       /\ pageLog' = Append(pageLog, page)
       /\ pageOutcome' = outcome
       /\ IF outcome.kind = "error"
            THEN /\ pagePc' = "failed"
                 /\ UNCHANGED <<collected, page>>
            ELSE IF outcome.kind = "not ok" \/ outcome.entries = 0
            THEN /\ pagePc' = "done"
                 /\ UNCHANGED <<collected, page>>
            ELSE /\ collected' = collected + outcome.entries
                 /\ page' = page + 1
                 /\ pagePc' = IF page' > PageLimit THEN "done"
                              ELSE IF collected' < totalRecords THEN "loop" ELSE "done"
  /\ UNCHANGED <<totalRecords, baseVars, fwdVars, contentVars, detailVars>>

NextPages ==
  \/ FetchFirstPage
  \/ FetchNextPage

\* Every fetch settles.
SpecPages == InitAtRest /\ [][NextPages]_vars /\ WF_vars(NextPages)

(***************************************************************************)
(* The background worker's CACHE_SCHEDULE handler: a read of               *)
(* cachedSchedules, a change of the object read, and a write of it, with   *)
(* the storage callbacks of the two messages of one parse in any order.    *)
(***************************************************************************)
\* What the cache holds before the parse: nothing, another group, an older
\* schedule of one of the two groups, or both.
CachedBefore ==
  {EmptyMap, "G0" :> "old", "G1" :> "old", ("G0" :> "old") @@ ("G1" :> "old")}

\* handleParseSchedule sends the two CACHE_SCHEDULE messages back to back and
\* the router starts a chrome.storage.local.get for each.
SendCacheMessages ==
  /\ \A m \in CacheMessages : cachePc[m] = "idle"
  /\ cachePc' = [m \in CacheMessages |-> "get"]
  /\ UNCHANGED <<cachedSchedules, cacheLocal, tz, cmpVars, allocVars, pages, utilVars,
                 hiddenCards, fwdVars, contentVars, detailVars, pageVars>>

\* The callback of get: schedules = data.cachedSchedules || {}, the entry
\* of payload.groupId is put into it, and the set is started.
CacheGetCallback(m) ==
  /\ cachePc[m] = "get"
  /\ cacheLocal' = [cacheLocal EXCEPT ![m] = (m :> "new") @@ cachedSchedules]
  /\ cachePc' = [cachePc EXCEPT ![m] = "set"]
  /\ UNCHANGED <<cachedSchedules, tz, cmpVars, allocVars, pages, utilVars,
                 hiddenCards, fwdVars, contentVars, detailVars, pageVars>>

\* The set stores the object and its callback answers {success: true}.
CacheSetCallback(m) ==
  /\ cachePc[m] = "set"
  /\ cachedSchedules' = cacheLocal[m]
  /\ cachePc' = [cachePc EXCEPT ![m] = "done"]
  /\ UNCHANGED <<cacheLocal, tz, cmpVars, allocVars, pages, utilVars,
                 hiddenCards, fwdVars, contentVars, detailVars, pageVars>>

InitCache ==
  /\ tz \in TimeZones
  /\ CmpIdle /\ UtilIdle /\ AllocIdle
  /\ FwdIdle /\ ContentLoaded /\ DetailsIdle /\ PagesIdle
  /\ cachedSchedules \in CachedBefore
  /\ cachePc = [m \in CacheMessages |-> "idle"]
  /\ cacheLocal = [m \in CacheMessages |-> EmptyMap]

NextCache ==
  \/ SendCacheMessages
  \/ \E m \in CacheMessages : CacheGetCallback(m)
  \/ \E m \in CacheMessages : CacheSetCallback(m)

SpecCache == InitCache /\ [][NextCache]_vars

(***************************************************************************)
(* Inputs of the comparator: windows of consecutive days, one around       *)
(* Monday 2026-02-09 and one around each end of summer time.               *)
(***************************************************************************)
WindowStarts ==
  {DaysFromCivil(2026, 2, 6), DaysFromCivil(2026, 3, 27), DaysFromCivil(2026, 10, 23)}

WindowDays(w) == {w + k : k \in 0..(WindowLen - 1)}

\* Entries a scraped schedule can hold in the window starting at w: lessons on
\* the window's Monday and a row whose date did not parse.
CmpEntryPool(w) ==
  {[date |-> w + 3, pairNumber |-> 1], [date |-> w + 3, pairNumber |-> 2],
   [date |-> EmptyDate, pairNumber |-> 1]}

CmpInit ==
  /\ \E w \in WindowStarts :
       /\ cmpMy \in SeqsUpTo(CmpEntryPool(w), MaxEntries)
       /\ cmpTarget \in SeqsUpTo(CmpEntryPool(w), MaxEntries)
       /\ cmpFrom = w
  /\ cmpTo = EmptyDate
  /\ cmpSlots = << >>
  /\ cmpPc = "input"

\* handleFindFreeSlots calls findFreeSlots(state.mySchedule,
\* state.targetSchedule, dateFrom, dateTo) with the payload's dates.
CallFindFreeSlots ==
  /\ cmpPc = "input"
  /\ \E from \in WindowDays(cmpFrom), to \in WindowDays(cmpFrom) :
       /\ cmpFrom' = from
       /\ cmpTo' = to
       /\ cmpSlots' = findFreeSlots(cmpMy, cmpTarget, from, to)
  /\ cmpPc' = "done"
  /\ UNCHANGED <<extVars, hiddenCards, pages, utilVars, tz, cmpMy, cmpTarget, allocVars>>

InitComparator == tz \in TimeZones /\ CmpInit /\ UtilIdle /\ ExtIdle /\ AllocIdle

NextComparator == CallFindFreeSlots

SpecComparator == InitComparator /\ [][NextComparator]_vars

(***************************************************************************)
(* The helper functions, called on their own.                              *)
(***************************************************************************)
\* Entries given to the occupancy maps: lessons on the Monday, a second
\* entry of the Monday's first pair (another subject) and rows without a date.
OccEntryPool ==
  {Lesson(Monday0209, 1, "G1", "S1"), Lesson(Monday0209, 1, "G1", "S2"),
   Lesson(Monday0209, 2, "G1", "S1"),
   Lesson(EmptyDate, 1, "G1", "S1"), Lesson(EmptyDate, 2, "G1", "S1")}

\* The three loops that build { date: Set<pairNumber> } from a list.
CallBuildOccupiedMap ==
  /\ \E entries \in SeqsUpTo(OccEntryPool, MaxOccEntries) :
       /\ args' = [entries |-> entries]
       /\ returned' = [comparator |-> ComparatorBuildOccupiedMap(entries),
                       content    |-> buildOccupiedMap(entries),
                       teacher    |-> TeacherOccupied(entries)]
  /\ called' = "buildOccupiedMap"
  /\ UNCHANGED <<extVars, hiddenCards, pages, tz, cmpVars, allocVars>>

\* Dates given to dateRange: windows that start on Monday 2026-02-09 and on
\* the Friday before each change of summer time.
RangeStarts ==
  {DaysFromCivil(2026, 2, 9), DaysFromCivil(2026, 3, 27), DaysFromCivil(2026, 10, 23)}

CallDateRange ==
  /\ \E w \in RangeStarts :
       \E startDate \in WindowDays(w), endDate \in WindowDays(w),
          weekdaysOnly \in BOOLEAN :
         /\ args' = [startDate |-> startDate, endDate |-> endDate,
                     weekdaysOnly |-> weekdaysOnly]
         /\ returned' = dateRange(startDate, endDate, weekdaysOnly)
  /\ called' = "dateRange"
  /\ UNCHANGED <<extVars, hiddenCards, pages, tz, cmpVars, allocVars>>

\* Dates given to getWeekDates and getISOWeek: every day of the week around
\* the new year, of the week of 2026-02-09 and of the weeks that end with a
\* change of summer time.
WeekInputs ==
  {w + k : w \in {DaysFromCivil(2025, 12, 29), DaysFromCivil(2026, 2, 9),
                  DaysFromCivil(2026, 3, 23), DaysFromCivil(2026, 10, 19)},
           k \in 0..6}

CallGetWeekDates ==
  /\ \E dateStr \in WeekInputs :
       /\ args' = [dateStr |-> dateStr]
       /\ returned' = getWeekDates(dateStr)
  /\ called' = "getWeekDates"
  /\ UNCHANGED <<extVars, hiddenCards, pages, tz, cmpVars, allocVars>>

CallGetISOWeek ==
  /\ \E dateStr \in WeekInputs :
       /\ args' = [dateStr |-> dateStr]
       /\ returned' = getISOWeek(dateStr)
  /\ called' = "getISOWeek"
  /\ UNCHANGED <<extVars, hiddenCards, pages, tz, cmpVars, allocVars>>

\* Free slots given to suggestSlots: weekdays of two weeks of February 2026
\* and one of March, as findFreeSlots lists them.
FreeSlot(date, number) ==
  [date |-> date, dayName |-> GetDayName(date), pairNumber |-> number]

FreeSlotPool ==
  {FreeSlot(DaysFromCivil(2026, 2, 6), 1), FreeSlot(DaysFromCivil(2026, 2, 9), 1),
   FreeSlot(DaysFromCivil(2026, 2, 9), 2), FreeSlot(DaysFromCivil(2026, 2, 10), 1),
   FreeSlot(DaysFromCivil(2026, 3, 2), 1)}

CallSuggestSlots ==
  /\ \E freeSlots \in SeqsUpTo(FreeSlotPool, MaxSlots), strategy \in Strategies :
       /\ args' = [freeSlots |-> freeSlots, strategy |-> strategy]
       /\ returned' = suggestSlots(freeSlots, strategy)
  /\ called' = "suggestSlots"
  /\ UNCHANGED <<extVars, hiddenCards, pages, tz, cmpVars, allocVars>>

InitUtils == tz \in TimeZones /\ CmpIdle /\ UtilIdle /\ ExtIdle /\ AllocIdle

NextUtils ==
  \/ CallBuildOccupiedMap
  \/ CallDateRange
  \/ CallGetWeekDates
  \/ CallGetISOWeek
  \/ CallSuggestSlots

SpecUtils == InitUtils /\ [][NextUtils]_vars

(***************************************************************************)
(* The popup's downloadReport.                                             *)
(***************************************************************************)
\* A JavaScript object is the list of its properties <<key, value>> in the order
\* they were created.  Object.entries lists the properties whose key is an
\* array index first, in ascending numeric order, and then the others in
\* creation order.
ArrayIndexNames == ("21" :> 21) @@ ("32" :> 32)

IsArrayIndex(key) == key \in DOMAIN ArrayIndexNames

ObjHas(obj, key) == \E k \in DOMAIN obj : obj[k][1] = key

ObjGet(obj, key) == obj[CHOOSE k \in DOMAIN obj : obj[k][1] = key][2]

ObjSet(obj, key, value) ==
  IF ObjHas(obj, key)
    THEN [k \in DOMAIN obj |-> IF obj[k][1] = key THEN <<key, value>> ELSE obj[k]]
    ELSE Append(obj, <<key, value>>)

\* The properties of obj whose key is an array index and that are not yet
\* listed (done), in ascending numeric order of the key.
RECURSIVE IndexEntries(_, _)
IndexEntries(obj, done) ==
  LET left == {k \in DOMAIN obj : IsArrayIndex(obj[k][1]) /\ k \notin done}
  IN  IF left = {} THEN << >>
      ELSE LET least == CHOOSE k \in left :
                          \A l \in left :
                            ArrayIndexNames[obj[k][1]] <= ArrayIndexNames[obj[l][1]]
           IN  <<obj[least]>> \o IndexEntries(obj, done \cup {least})

IsNamedEntry(entry) == ~IsArrayIndex(entry[1])

ObjectEntries(obj) == IndexEntries(obj, {}) \o SelectSeq(obj, IsNamedEntry)

\* The word the report uses for a missing subject or group.
Unknown == "Unknown"

\* r.lesson.subject || Unknown, r.lesson.group || Unknown
OrUnknown(name) == IF name = "" THEN Unknown ELSE name

\* "Group results by subject -> group": the first loop of downloadReport.
RECURSIVE GroupBySubject(_, _, _)
GroupBySubject(list, i, bySubject) ==
  IF i > Len(list) THEN bySubject
  ELSE LET r      == list[i]
           subj   == OrUnknown(r.lesson.subject)
           grp    == OrUnknown(r.lesson.group)
           groups == IF ObjHas(bySubject, subj) THEN ObjGet(bySubject, subj) ELSE << >>
           rows   == IF ObjHas(groups, grp) THEN ObjGet(groups, grp) ELSE << >>
       IN  GroupBySubject(list, i + 1,
             ObjSet(bySubject, subj, ObjSet(groups, grp, Append(rows, r))))

\* The pages of one subject, one per group, in the order of Object.entries.
GroupPages(subject, groups) ==
  LET entries == ObjectEntries(groups)
  IN  [k \in DOMAIN entries |->
         [subject |-> subject, groupName |-> entries[k][1], results |-> entries[k][2]]]

\* "Build HTML pages - one per subject+group combination": the second loop.
RECURSIVE BuildPages(_, _)
BuildPages(subjectEntries, i) ==
  IF i > Len(subjectEntries) THEN << >>
  ELSE GroupPages(subjectEntries[i][1], subjectEntries[i][2])
         \o BuildPages(subjectEntries, i + 1)

\* downloadReport: nothing is built without results.
downloadReport ==
  /\ pc = "report"
  /\ pages' = IF lastResults = << >> THEN pages
              ELSE BuildPages(ObjectEntries(GroupBySubject(lastResults, 1, << >>)), 1)
  /\ pc' = "downloaded"
  /\ UNCHANGED <<extVars, hiddenCards, utilVars, tz, cmpVars, serverVars, popupVars, handlerVars,
                 prevResults, calls>>

\* Results the popup can hold: lessons of two subjects and of groups whose
\* names are words or numbers, and a lesson without subject and group.
Result(subject, group, number) ==
  [lesson |-> Lesson(Monday0209, number, group, subject), slot |-> NullSlot]

ResultPool ==
  {Result("S1", "32", 1), Result("S1", "21", 1), Result("S1", "21", 2),
   Result("S2", "G1", 1), Result("S1", "G1", 1), Result("", "", 1)}

ReportInit ==
  /\ teacherMonth = << >>
  /\ otherLessons = << >>
  /\ filterGroups = {}
  /\ fetchedEntries = << >>
  /\ filteredLessons = << >>
  /\ lastResults \in SeqsUpTo(ResultPool, MaxResults)
  /\ hiddenCards = {}
  /\ lessons = << >>
  /\ groupSchedules = EmptyMap
  /\ teacherOccupied = EmptyMap
  /\ virtualTeacher = EmptyMap
  /\ virtualGroup = EmptyMap
  /\ results = << >>
  /\ li = 1
  /\ response = NoResponse
  /\ prevResults = << >>
  /\ calls = 0
  /\ pc = "report"

InitReport == tz \in TimeZones /\ CmpIdle /\ UtilIdle /\ ExtIdle /\ ReportInit

NextReport == downloadReport

SpecReport == InitReport /\ [][NextReport]_vars

(***************************************************************************)
(* Claims about downloadReport (SpecReport).                               *)
(***************************************************************************)
SubjectOf(r) == IF r.lesson.subject = "" THEN Unknown ELSE r.lesson.subject

GroupOf(r) == IF r.lesson.group = "" THEN Unknown ELSE r.lesson.group

\* Index of the first result with the subject, and with subject and group.
FirstOfSubject(subject) ==
  CHOOSE i \in DOMAIN lastResults :
    /\ SubjectOf(lastResults[i]) = subject
    /\ \A j \in 1..(i - 1) : SubjectOf(lastResults[j]) # subject

FirstOfGroup(subject, group) ==
  CHOOSE i \in DOMAIN lastResults :
    /\ SubjectOf(lastResults[i]) = subject /\ GroupOf(lastResults[i]) = group
    /\ \A j \in 1..(i - 1) :
         ~(SubjectOf(lastResults[j]) = subject /\ GroupOf(lastResults[j]) = group)

\* C20: the report partitions the results by (subject, group): every result
\* is in exactly one section, a section keeps the input order of its
\* results, subjects come in the order they were first seen and, within a
\* subject, groups in the order they were first seen.
C20_SectionsInFirstSeenOrder ==
  (pc = "downloaded" /\ lastResults # << >>) =>
    /\ \A i \in DOMAIN lastResults :
         \E k \in DOMAIN pages :
           /\ pages[k].subject = SubjectOf(lastResults[i])
           /\ pages[k].groupName = GroupOf(lastResults[i])
    /\ \A k \in DOMAIN pages :
         LET InSection(r) == SubjectOf(r) = pages[k].subject
                               /\ GroupOf(r) = pages[k].groupName
         IN  /\ pages[k].results = SelectSeq(lastResults, InSection)
             /\ pages[k].results # << >>
    /\ \A k, l \in DOMAIN pages :
         k < l =>
           \/ FirstOfSubject(pages[k].subject) < FirstOfSubject(pages[l].subject)
           \/ /\ pages[k].subject = pages[l].subject
              /\ FirstOfGroup(pages[k].subject, pages[k].groupName)
                   < FirstOfGroup(pages[l].subject, pages[l].groupName)

(***************************************************************************)
(* Claims about the occupancy maps (SpecUtils).                            *)
(***************************************************************************)
EntryKeys(entries) ==
  {<<entries[i].date, entries[i].pairNumber>> : i \in DOMAIN entries}

\* C12: the map built from a list equals the map built from every list with
\* the same (date, pairNumber) pairs, so from the list without its duplicates
\* and from every reordering of it.
C12_DuplicatesAndOrder ==
  called = "buildOccupiedMap" =>
    \A other \in SeqsUpTo(OccEntryPool, MaxOccEntries) :
      EntryKeys(other) = EntryKeys(args.entries) =>
        /\ ComparatorBuildOccupiedMap(other) = returned.comparator
        /\ buildOccupiedMap(other) = returned.content

\* C12 witness: a list with two entries of one (date, pairNumber) and a
\* later entry of another pair of that date.
C12_Witness ==
  /\ called = "buildOccupiedMap"
  /\ \E i, j, k \in DOMAIN args.entries :
       /\ i < j /\ j < k
       /\ args.entries[i].date = args.entries[j].date
       /\ args.entries[i].pairNumber = args.entries[j].pairNumber
       /\ args.entries[k].date = args.entries[i].date
       /\ args.entries[k].pairNumber # args.entries[i].pairNumber
       /\ args.entries[i].date # EmptyDate
       /\ Cardinality(returned.content[args.entries[i].date]) = 2

\* C13: every map built has as keys exactly the non-empty dates that occur
\* in an entry; an entry without a date creates no key.
C13_KeysAreDatedEntries ==
  called = "buildOccupiedMap" =>
    LET dated == {args.entries[i].date : i \in DOMAIN args.entries} \ {EmptyDate}
    IN  /\ DOMAIN returned.comparator = dated
        /\ DOMAIN returned.content = dated
        /\ DOMAIN returned.teacher = dated

(***************************************************************************)
(* Claims about the calendar helpers (SpecUtils).                          *)
(***************************************************************************)
\* The civil calendar, independent of Date: day 0 (1970-01-01) is a Thursday.
IsWeekday(d) == ((d + 4) % 7) \notin {0, 6}

StrictlyAscending(q) == \A i, j \in DOMAIN q : i < j => q[i] < q[j]

\* C14: dateRange(start, end, weekdaysOnly) returns, ascending and each once,
\* exactly the dates of [start, end] that are not Saturday or Sunday when
\* weekdaysOnly is set, and every date of [start, end] when it is not; the
\* list is empty when start > end.
C14_DateRangeExact ==
  called = "dateRange" =>
    /\ StrictlyAscending(returned)
    /\ SeqToSet(returned) =
         {d \in args.startDate..args.endDate : ~args.weekdaysOnly \/ IsWeekday(d)}

\* The civil calendar: the Monday of the week that contains day d, which is
\* d - ((dow + 6) mod 7) with dow = (d + 4) mod 7.
MondayOfWeek(d) == d - ((d + 3) % 7)

\* C15: for every input date getWeekDates returns exactly five consecutive
\* dates, from the Monday date - ((dow + 6) mod 7) to the Friday of that
\* week; a weekday input is one of the five.
C15_MondayToFriday ==
  called = "getWeekDates" =>
    /\ returned = [i \in 1..5 |-> MondayOfWeek(args.dateStr) + i - 1]
    /\ IsWeekday(args.dateStr) => args.dateStr \in SeqToSet(returned)

\* ISO 8601: the week of day d belongs to the year of its Thursday and is
\* numbered from the week that holds that year's first Thursday.
IsoWeekKey(d) ==
  LET thursday == MondayOfWeek(d) + 3
      isoYear  == CivilYearMonth(thursday)[1]
  IN  isoYear * 100 + ((thursday - DaysFromCivil(isoYear, 1, 1)) \div 7) + 1

\* C16: getISOWeek(date) is the ISO 8601 week key of the date, also where
\* the ISO year differs from the calendar year; two dates get the same key
\* exactly when they lie in the same Monday..Sunday week; the key of
\* 2026-01-01 is 2026-W01.
C16_IsoWeekKey ==
  called = "getISOWeek" =>
    /\ returned = IsoWeekKey(args.dateStr)
    /\ \A other \in WeekInputs :
         (getISOWeek(other) = returned)
           <=> (MondayOfWeek(other) = MondayOfWeek(args.dateStr))
    /\ args.dateStr = DaysFromCivil(2026, 1, 1) => returned = 202601

(***************************************************************************)
(* Claims about suggestSlots (SpecUtils).                                  *)
(***************************************************************************)
\* The slots of the list that are the first, in list order, of their bucket.
FirstsBy(slots, Key(_)) ==
  LET firsts == {i \in DOMAIN slots : \A j \in 1..(i - 1) : Key(slots[j]) # Key(slots[i])}
  IN  [k \in 1..Cardinality(firsts) |->
         slots[CHOOSE i \in firsts : Cardinality({j \in firsts : j <= i}) = k]]

IsoWeekOfSlot(slot) == IsoWeekKey(slot.date)

CalendarMonthOfSlot(slot) ==
  CivilYearMonth(slot.date)[1] * 100 + CivilYearMonth(slot.date)[2]

\* C17: with "first-per-week" the result holds exactly one slot for each
\* ISO week present in the input and none for any other week, and the slot
\* of a week is the first slot of that week in input order.
C17_FirstPerIsoWeek ==
  (called = "suggestSlots" /\ args.strategy = "first-per-week") =>
    /\ {IsoWeekOfSlot(returned[k]) : k \in DOMAIN returned}
         = {IsoWeekOfSlot(args.freeSlots[i]) : i \in DOMAIN args.freeSlots}
    /\ \A k, l \in DOMAIN returned :
         k # l => IsoWeekOfSlot(returned[k]) # IsoWeekOfSlot(returned[l])
    /\ SeqToSet(returned) = SeqToSet(FirstsBy(args.freeSlots, IsoWeekOfSlot))

IsSubsequence(sub, q) ==
  \E idx \in [DOMAIN sub -> DOMAIN q] :
    /\ \A k, l \in DOMAIN sub : k < l => idx[k] < idx[l]
    /\ \A k \in DOMAIN sub : sub[k] = q[idx[k]]

\* C18: "first-per-month" keeps exactly the first-seen slot of each "YYYY-MM"
\* prefix; with either bucketing strategy the kept slots are listed in the
\* order their buckets were first seen, so the output is a subsequence of
\* the input.
C18_FirstPerMonthInOrder ==
  (called = "suggestSlots" /\ args.strategy # "all") =>
    /\ args.strategy = "first-per-month" =>
         returned = FirstsBy(args.freeSlots, CalendarMonthOfSlot)
    /\ IsSubsequence(returned, args.freeSlots)
    /\ \A k \in DOMAIN returned :
         \E i \in DOMAIN args.freeSlots :
           /\ args.freeSlots[i] = returned[k]
           /\ \A l \in 1..(k - 1) : \E j \in 1..(i - 1) : args.freeSlots[j] = returned[l]

\* C18 witness: a list out of date order with two slots of one month after a
\* slot of a later month, reduced to the first slot of each month.
C18_Witness ==
  /\ called = "suggestSlots"
  /\ args.strategy = "first-per-month"
  /\ Len(args.freeSlots) = 3
  /\ Len(returned) = 2
  /\ returned[1].date > returned[2].date

\* C19: suggestSlots(freeSlots, "all") returns the input list: the same slots
\* in the same order, the empty list included.
C19_AllIsIdentity ==
  (called = "suggestSlots" /\ args.strategy = "all") => returned = args.freeSlots

\* C19 witness: "all" applied to a list that holds two slots of one week and
\* month, which the bucketing strategies would reduce.
C19_Witness ==
  /\ called = "suggestSlots"
  /\ args.strategy = "all"
  /\ \E i, j \in DOMAIN returned :
       i # j /\ CalendarMonthOfSlot(returned[i]) = CalendarMonthOfSlot(returned[j])

(***************************************************************************)
(* Claims about findFreeSlots (SpecComparator).                            *)
(***************************************************************************)
HasEntryAt(entries, d, p) ==
  \E i \in DOMAIN entries : entries[i].date = d /\ entries[i].pairNumber = p

SlotKeys(slots) == {<<slots[i].date, slots[i].pairNumber>> : i \in DOMAIN slots}

\* The (date, period) pairs the comparison is specified to return.
ExpectedFree(myEntries, targetEntries, dateFrom, dateTo) ==
  {<<d, p>> \in (dateFrom..dateTo) \X (1..NumPairs) :
     /\ IsWeekday(d)
     /\ ~HasEntryAt(myEntries, d, p)
     /\ ~HasEntryAt(targetEntries, d, p)}

\* C8: findFreeSlots(A, B, dateFrom, dateTo) returns exactly the (date, period)
\* pairs with date a weekday in [dateFrom, dateTo], period one of the 8 fixed
\* periods, and neither A nor B occupying (date, period): nothing occupied is
\* returned and no free weekday slot in range is missing.
C8_ExactFreeSet ==
  cmpPc = "done" =>
    SlotKeys(cmpSlots) = ExpectedFree(cmpMy, cmpTarget, cmpFrom, cmpTo)

\* C9: findFreeSlots is symmetric in its two schedules: swapping them gives
\* the same list of slots.
C9_Symmetric ==
  cmpPc = "done" => cmpSlots = findFreeSlots(cmpTarget, cmpMy, cmpFrom, cmpTo)

\* C9 witness: a finished call in which each schedule alone blocks a period of
\* a date in range that the other leaves free.
C9_Witness ==
  /\ cmpPc = "done"
  /\ cmpSlots # << >>
  /\ \E d \in cmpFrom..cmpTo, p, q \in 1..NumPairs :
       /\ IsWeekday(d)
       /\ HasEntryAt(cmpMy, d, p) /\ ~HasEntryAt(cmpTarget, d, p)
       /\ HasEntryAt(cmpTarget, d, q) /\ ~HasEntryAt(cmpMy, d, q)

\* C10: the returned list is strictly ordered by date ascending and, within a
\* date, by period ascending, so no (date, period) pair appears twice.
C10_StrictlyOrdered ==
  cmpPc = "done" =>
    \A i, j \in DOMAIN cmpSlots :
      i < j =>
        \/ cmpSlots[i].date < cmpSlots[j].date
        \/ /\ cmpSlots[i].date = cmpSlots[j].date
           /\ cmpSlots[i].pairNumber < cmpSlots[j].pairNumber

\* C10 witness: a returned list that spans two dates and several periods.
C10_Witness ==
  /\ cmpPc = "done"
  /\ \E i, j \in DOMAIN cmpSlots : cmpSlots[i].date # cmpSlots[j].date
  /\ \E i, j \in DOMAIN cmpSlots :
       /\ cmpSlots[i].date = cmpSlots[j].date
       /\ cmpSlots[i].pairNumber # cmpSlots[j].pairNumber

\* C11: with dateFrom later than dateTo the result is the empty list, and
\* when one schedule has no entries the result is exactly the weekday slots
\* in range that the other schedule does not occupy.
C11_EmptyRangeAndEmptySide ==
  cmpPc = "done" =>
    /\ cmpFrom > cmpTo => cmpSlots = << >>
    /\ cmpMy = << >> =>
         SlotKeys(cmpSlots) = ExpectedFree(<< >>, cmpTarget, cmpFrom, cmpTo)
    /\ cmpTarget = << >> =>
         SlotKeys(cmpSlots) = ExpectedFree(cmpMy, << >>, cmpFrom, cmpTo)

(***************************************************************************)
(* Claims about the allocator (SpecAllocator).                             *)
(***************************************************************************)
SameSlot(a, b) == a.date = b.date /\ a.pairNumber = b.pairNumber

Assigned(i) == results[i].slot # NullSlot

\* C1: in one batch no two distinct lessons with non-null slots share a
\* (date, pairNumber), whether they are of the same group or not (they share
\* the one teacher).
C1_NoCollision ==
  \A i, j \in DOMAIN results :
    (i # j /\ Assigned(i) /\ Assigned(j)) =>
      ~SameSlot(results[i].slot, results[j].slot)

\* C1 witness: a finished batch in which two lessons of different groups got
\* slots on the same date, so that only the teacher's ledger keeps them apart.
C1_Witness ==
  /\ pc = "done"
  /\ \E i, j \in DOMAIN results :
       /\ i # j /\ Assigned(i) /\ Assigned(j)
       /\ results[i].lesson.group # results[j].lesson.group
       /\ results[i].slot.date = results[j].slot.date

\* C2: no lesson is assigned a slot at which the teacher has a lesson in the
\* teacher's real schedule, i.e. among all entries fetched for the month,
\* selected into the batch or not.
C2_NoTeacherClash ==
  \A i \in DOMAIN results :
    Assigned(i) =>
      ~\E k \in DOMAIN fetchedEntries : SameSlot(fetchedEntries[k], results[i].slot)

\* C3: no lesson is assigned a slot at which the lesson's own group has a
\* lesson in that group's real schedule, on any of the five candidate dates.
C3_NoGroupClash ==
  \A i \in DOMAIN results :
    Assigned(i) =>
      ~\E e \in GroupRealLessons(results[i].lesson.group) : SameSlot(e, results[i].slot)

\* The 5 x 8 candidates of a dated lesson, as (day of week 0..4, period).
Candidates == (0..4) \X (1..NumPairs)

CandBefore(a, b) == a[1] < b[1] \/ (a[1] = b[1] /\ a[2] < b[2])

\* A (date, period) is blocked for lessons[n] when the batch holds a lesson at
\* it (teacher occupancy), the fetched schedule of the lesson's group holds an
\* entry at it (group occupancy), or an earlier lesson of the batch was given
\* it (the virtual ledgers of the teacher and of the group).
BlockedFor(n, d, p) ==
  LET g == lessons[n].group
  IN  \/ \E k \in DOMAIN lessons : lessons[k].date = d /\ lessons[k].pairNumber = p
      \/ /\ g \in DOMAIN groupSchedules
         /\ \E k \in DOMAIN groupSchedules[g] :
              groupSchedules[g][k].date = d /\ groupSchedules[g][k].pairNumber = p
      \/ \E k \in 1..(n - 1) :
           results[k].slot.date = d /\ results[k].slot.pairNumber = p
              /\ results[k].slot # NullSlot

FreeCandidates(n) ==
  {c \in Candidates : ~BlockedFor(n, MondayOfWeek(lessons[n].date) + c[1], c[2])}

\* C4: first-fit.  Each dated lesson, taken in input order, gets the first
\* candidate in the order Monday..Friday of its week, then period 1..8, that
\* is absent from the teacher occupancy, the group occupancy and the two
\* virtual ledgers as they stand when the lesson is processed; its slot is
\* null exactly when no such candidate exists.
C4_FirstFit ==
  [][(pc = "scan" /\ li' = li + 1 /\ lessons[li].date # EmptyDate) =>
       LET slot == results'[li].slot
           free == FreeCandidates(li)
       IN  /\ (slot = NullSlot) <=> (free = {})
           /\ slot # NullSlot =>
                \E c \in free :
                  /\ slot.date = MondayOfWeek(lessons[li].date) + c[1]
                  /\ slot.pairNumber = c[2]
                  /\ \A b \in free : ~CandBefore(b, c)]_vars

\* The case of C5: a batch of two lessons of one group, both on Monday
\* 2026-02-09, and nothing else scheduled for anyone in that week.
TwoLessonsOnMonday ==
  /\ pc = "done"
  /\ Len(lessons) = 2
  /\ lessons[1].date = Monday0209 /\ lessons[2].date = Monday0209
  /\ lessons[1].group = lessons[2].group
  /\ \A e \in SeqToSet(ServerLessons) :
       (Monday0209 <= e.date /\ e.date < Monday0209 + 7) => e \in SeqToSet(lessons)

SlotAt(d, p) == [date |-> d, dayName |-> (d + 4) % 7, pairNumber |-> p]

\* C5 as stated: lesson 1 gets (2026-02-09, period 1) and lesson 2 gets
\* (2026-02-09, period 2).
C5_PeriodsOneAndTwo ==
  TwoLessonsOnMonday =>
    /\ results[1].slot = SlotAt(Monday0209, 1)
    /\ results[2].slot = SlotAt(Monday0209, 2)

\* C6: the result list has one entry per input lesson, in input order; a
\* lesson without a free candidate gets a null slot, which is a success and
\* not an error, and the lessons after it are still processed.
C6_OneEntryPerLesson ==
  /\ pc \in {"scan", "done"} =>
       /\ Len(results) = li - 1
       /\ Len(results) <= Len(lessons)
       /\ \A i \in DOMAIN results : results[i].lesson = lessons[i]
  /\ pc = "done" =>
       /\ Len(results) = Len(lessons)
       /\ lastResults = results
       /\ response.kind = "success"
       /\ response.slotCount = Cardinality({i \in DOMAIN results : Assigned(i)})

\* C6 witness: a finished batch in which a lesson got a null slot and a later
\* lesson got a slot.
C6_Witness ==
  /\ pc = "done"
  /\ \E i, j \in DOMAIN results : i < j /\ ~Assigned(i) /\ Assigned(j)

\* C7: the virtual ledger is call-scoped: a second call on the same lessons
\* and the same schedules returns the results of the first.
C7_SecondCallSame ==
  (pc = "done" /\ calls >= 2) => results = prevResults

\* C7 witness: a second call finished, the first having reserved two slots.
C7_Witness ==
  /\ pc = "done"
  /\ calls >= 2
  /\ \E i, j \in DOMAIN prevResults :
       i # j /\ prevResults[i].slot # NullSlot /\ prevResults[j].slot # NullSlot

(***************************************************************************)
(* Claims about the message handlers of the content script.                *)
(***************************************************************************)
\* C21: an empty lesson batch given to the allocator is answered with an
\* empty result (a success with no allocations), not with an error.
C21_EmptyBatchIsEmptyResult ==
  (lessons = << >> /\ pc # "sent") =>
     (response.kind = "success" /\ results = << >> /\ pc = "done")

(***************************************************************************)
(* Claims about the popup.                                                 *)
(***************************************************************************)
\* C22: resetFrom(step) hides the card of that step and of every later step
\* and clears their state: 'filters' empties fetchedEntries, filteredLessons
\* and lastResults; 'lessons' empties filteredLessons and lastResults and
\* leaves fetchedEntries as it was; 'result' empties only lastResults; an
\* unknown step changes nothing.
C22_CascadingReset ==
  [][\A step \in ResetSteps :
       resetFrom(step) =>
         CASE step = "filters" ->
                /\ Cards \subseteq hiddenCards'
                /\ fetchedEntries' = << >>
                /\ filteredLessons' = << >>
                /\ lastResults' = << >>
           [] step = "lessons" ->
                /\ {"lessons-card", "result-card"} \subseteq hiddenCards'
                /\ filteredLessons' = << >>
                /\ lastResults' = << >>
                /\ UNCHANGED fetchedEntries
           [] step = "result" ->
                /\ "result-card" \in hiddenCards'
                /\ lastResults' = << >>
                /\ UNCHANGED <<fetchedEntries, filteredLessons>>
           [] OTHER -> UNCHANGED <<popupVars, hiddenCards>>]_vars

\* A result that had been shown is reset from the 'result' step: the lessons
\* stay listed, the result card is hidden again and lastResults is empty.
C22_Witness ==
  /\ called = "resetFrom"
  /\ args = <<"result">>
  /\ response.kind = "success"
  /\ results # << >>
  /\ filteredLessons # << >>
  /\ lastResults = << >>
  /\ hiddenCards = {"result-card"}

(***************************************************************************)
(* Claims about the background worker.                                     *)
(***************************************************************************)
\* What has happened to the forwarded request so far: the calls made and the
\* responses given, against the outcome of the tab query and of the sends.
C23_AnsweredOnceSoFar ==
  /\ Len(fwdResponses) <= 1
  /\ Len(fwdSends) <= 2
  /\ fwdInjected <= 1
  /\ (fwdInjected = 1 => (fwdSends # << >> /\ fwdSends[1] = "rejected"))
  /\ (Len(fwdSends) = 2 => fwdInjected = 1)
  /\ (fwdPc \notin {"idle", "done"} => fwdResponses = << >>)
  /\ (fwdPc = "done" =>
        /\ Len(fwdResponses) = 1
        /\ IF fwdTab # "smart-school"
             THEN /\ fwdResponses[1].from = "background"
                  /\ fwdSends = << >>
                  /\ fwdInjected = 0
             ELSE IF fwdSends[Len(fwdSends)] # "rejected"
             THEN fwdResponses[1] = FromContent(fwdSends[Len(fwdSends)])
             ELSE /\ fwdResponses[1].from = "background"
                  /\ fwdInjected = 1)

\* C23: every forwarded request is answered exactly once on every path:
\* with an error, and with no message sent and nothing injected, when there
\* is no active tab or the tab is not on the Smart School host; otherwise
\* with the content script's response; after a failed first send the scripts
\* are injected once and the message is retried once, and a failed injection
\* or a failed retry gives exactly one error response.
C23_AnsweredExactlyOnce ==
  /\ []C23_AnsweredOnceSoFar
  /\ (fwdPc = "query" ~> (fwdPc = "done" /\ Len(fwdResponses) = 1))

\* The first send failed, the scripts were injected, and the retry brought
\* the content script's response.
C23_Witness ==
  /\ fwdPc = "done"
  /\ fwdSends = <<"rejected", "success">>
  /\ fwdInjected = 1
  /\ fwdResponses = <<FromContent("success")>>

(***************************************************************************)
(* Claims about the handlers over the content script's state.              *)
(***************************************************************************)
\* C24: FIND_FREE_SLOTS is served only after both schedules were parsed.
\* While state.mySchedule or state.targetSchedule is null the handler returns
\* an error and leaves state.freeSlots and state.selectedSlots as they were;
\* otherwise state.freeSlots is the full list of free slots,
\* state.selectedSlots is its first-per-week reduction and totalFree in the
\* response is the length of the full list.
C24_FindFreeSlotsAfterParse ==
  [][\A payload \in FindPayloads :
       handleFindFreeSlots(payload) =>
         IF mySchedule = Null \/ targetSchedule = Null
           THEN /\ csResponse'.kind = "error"
                /\ UNCHANGED <<stateFreeSlots, selectedSlots>>
           ELSE /\ csResponse'.kind = "success"
                /\ stateFreeSlots' = findFreeSlots(mySchedule.entries, targetSchedule.entries,
                                              payload.dateFrom, payload.dateTo)
                /\ selectedSlots' = suggestSlots(stateFreeSlots', "first-per-week")
                /\ csResponse'.slots = selectedSlots'
                /\ csResponse'.totalFree = Len(stateFreeSlots')]_vars

\* Both schedules are parsed and a Friday and the Monday after it were
\* searched: many free slots, two of them selected.
C24_Witness ==
  /\ csResponse.to = "FIND_FREE_SLOTS"
  /\ csResponse.kind = "success"
  /\ mySchedule # Null
  /\ targetSchedule # Null
  /\ csResponse.totalFree = Len(stateFreeSlots)
  /\ Len(stateFreeSlots) > Len(selectedSlots)
  /\ Len(selectedSlots) = 2

\* C25: PARSE_SCHEDULE without myGroupId or without targetGroupId returns an
\* error, fetches nothing, sends no CACHE_SCHEDULE message and leaves
\* state.mySchedule and state.targetSchedule as they were.
C25_MissingGroupIsRefused ==
  [][\A payload \in ParsePayloads :
       (/\ handleParseSchedule(payload)
        /\ (payload.myGroupId = "" \/ payload.targetGroupId = "")) =>
         /\ csResponse' = Returns("PARSE_SCHEDULE", "error", << >>, 0)
         /\ UNCHANGED parsePc
         /\ UNCHANGED <<mySchedule, targetSchedule, fetched, cacheMsgs>>]_vars

\* Both schedules had been parsed and cached when a PARSE_SCHEDULE without
\* both group ids was refused.
C25_Witness ==
  /\ csResponse = Returns("PARSE_SCHEDULE", "error", << >>, 0)
  /\ \A r \in 1..MaxMessages : parsePc[r] = "idle"
  /\ mySchedule # Null
  /\ targetSchedule # Null
  /\ fetched = <<"G1", "G2">>
  /\ cacheMsgs = <<"G1", "G2">>

\* The positions of selectedIndexes that hold an index of state.selectedSlots.
ValidPositions(selectedIndexes) ==
  {k \in DOMAIN selectedIndexes :
     0 <= selectedIndexes[k] /\ selectedIndexes[k] < Len(selectedSlots)}

\* C26: GENERATE_REPORT builds its report from the slots
\* state.selectedSlots[i] of the requested indexes i only, in the requested
\* order, leaving out the indexes that are out of range; when no requested
\* index is valid, also before any FIND_FREE_SLOTS, it returns an error and
\* generates, copies and downloads nothing.
C26_ReportFromRequestedSlots ==
  [][\A payload \in ReportPayloads :
       handleGenerateReport(payload) =>
         LET ix  == payload.selectedIndexes
             pos == ValidPositions(ix)
             Rank(k) == Cardinality({j \in pos : j <= k})
         IN  IF pos = {}
               THEN /\ csResponse'.kind = "error"
                    /\ UNCHANGED <<generated, delivered>>
               ELSE /\ csResponse'.kind = "success"
                    /\ Len(generated') = Len(generated) + 1
                    /\ LET report == generated'[Len(generated')]
                       IN  /\ Len(report) = Cardinality(pos)
                           /\ \A k \in pos : report[Rank(k)] = selectedSlots[ix[k] + 1]]_vars

\* Two slots are selected and a report was asked for the second and then
\* the first, with or without indexes out of range around them.
C26_Witness ==
  /\ csResponse.to = "GENERATE_REPORT"
  /\ Len(selectedSlots) = 2
  /\ generated = <<(<<selectedSlots[2], selectedSlots[1]>>)>>
  /\ delivered = <<"downloadBlob">>

(***************************************************************************)
(* Claims about the fetching of lesson details and of the month's pages.   *)
(***************************************************************************)
\* The batch an entry belongs to, counted from 0.
BatchOf(k) == (k - 1) \div BATCH_SIZE

\* What holds at every moment of fetchLessonDetails.
C27_BatchesSoFar ==
  /\ Cardinality(inFlight) <= BATCH_SIZE
  /\ \A k \in inFlight : BatchOf(k) = detailI \div BATCH_SIZE
  /\ \A k \in requested : BatchOf(k) <= detailI \div BATCH_SIZE
  /\ \A j \in DOMAIN progress :
       /\ progress[j] <= Len(detailEntries)
       /\ j > 1 => progress[j - 1] < progress[j]
  /\ Len(progress) = detailI \div BATCH_SIZE
  /\ (detailPc = "done" =>
        /\ inFlight = {}
        /\ requested = {k \in DOMAIN detailEntries : detailEntries[k].lessonId # 0}
        /\ Len(progress) = (Len(detailEntries) + BATCH_SIZE - 1) \div BATCH_SIZE
        /\ progress[Len(progress)] = Len(detailEntries))

\* C27: fetchLessonDetails takes the entries in consecutive batches of at
\* most 5; a request of the next batch starts only after every request of
\* the batch before has settled, so at most 5 requests are in flight; a
\* failed or non-OK request does not abort the others; onProgress is called
\* once per batch with a strictly increasing done count that ends at
\* entries.length; and the procedure terminates.
C27_BatchesOfFive ==
  /\ []C27_BatchesSoFar
  /\ (detailPc = "loop" ~> detailPc = "done")

\* Eleven entries went through in three batches although a request failed.
C27_Witness ==
  /\ detailPc = "done"
  /\ Len(detailEntries) = 11
  /\ anyFailed
  /\ progress = <<5, 10, 11>>
  /\ Cardinality(requested) = 8

\* What holds at every moment of the pagination loop.
C28_PagesSoFar ==
  /\ \A j \in DOMAIN pageLog : pageLog[j] = j + 1 /\ pageLog[j] <= PageLimit
  /\ (pagePc = "loop" =>
        (collected < totalRecords /\ pageOutcome.kind = "page" /\ page <= PageLimit))
  /\ (pageLog # << >> /\ (pageOutcome.kind # "page" \/ pageOutcome.entries = 0) =>
        pagePc \in {"done", "failed"})

\* C28: the pagination loop of FETCH_MONTH_SCHEDULE always terminates: it
\* requests the pages 2, 3, ... only while fewer entries than the reported
\* total are collected, stops at the first response that is not OK and at
\* the first empty page, and never requests a page above 20, whatever total
\* the server reports and whatever the pages hold.
C28_PaginationTerminates ==
  /\ []C28_PagesSoFar
  /\ [][pageLog' # pageLog =>
          (collected < totalRecords /\ pageLog' = Append(pageLog, Len(pageLog) + 2))]_vars
  /\ (pagePc = "loop" ~> pagePc \in {"done", "failed"})

\* The server reported 100 records and kept sending short pages: the loop
\* stopped after page 20.
C28_Witness ==
  /\ pagePc = "done"
  /\ totalRecords = 100
  /\ collected < totalRecords
  /\ Len(pageLog) = PageLimit - 1
  /\ pageLog[Len(pageLog)] = PageLimit
  /\ pageOutcome.entries = 1

(***************************************************************************)
(* Claims about the slots the allocator assigns.                           *)
(***************************************************************************)
\* C29: every non-null slot assigned to a lesson has a well-formed date that
\* is the Monday, ..., or Friday of the calendar week of the lesson's own
\* date, and a pairNumber in 1..8, for every lesson of the batch, those with
\* an empty date or a weekend date included.
C29_SlotInLessonWeek ==
  \A i \in DOMAIN results :
    Assigned(i) =>
      /\ results[i].slot.pairNumber \in 1..NumPairs
      /\ results[i].slot.date > EmptyDate
      /\ results[i].lesson.date # EmptyDate
      /\ results[i].slot.date - MondayOfWeek(results[i].lesson.date) \in 0..4

\* C30: no lesson of a batch is assigned its own original (date, pairNumber)
\* or the original (date, pairNumber) of another lesson of the batch: the
\* teacher's occupancy holds the slot of every lesson of the batch.
C30_NoOriginalSlotAssigned ==
  /\ \A i \in DOMAIN results, j \in DOMAIN lessons :
       Assigned(i) => ~SameSlot(results[i].slot, lessons[j])
  /\ pc \in {"scan", "done"} =>
       \A j \in DOMAIN lessons :
         lessons[j].pairNumber \in Busy(teacherOccupied, lessons[j].date)

\* The lesson of Monday's first period went to a slot of its week that is
\* not its own; its own is the first the scan looks at.
C30_Witness ==
  /\ pc = "done"
  /\ \E i \in DOMAIN results :
       /\ Assigned(i)
       /\ results[i].lesson.date = Monday0209
       /\ results[i].lesson.pairNumber = 1
       /\ results[i].slot.date - MondayOfWeek(Monday0209) \in 0..4

(***************************************************************************)
(* Claims about a group whose schedule could not be obtained.              *)
(***************************************************************************)
\* The (date index, period) pairs of the week dates wd that neither the
\* teacher's occupancy nor the two virtual ledgers hold for group g.
FreeOfTeacherAndLedgers(wd, g) ==
  {c \in (1..Len(wd)) \X (1..NumPairs) :
     /\ c[2] \notin Busy(teacherOccupied, wd[c[1]])
     /\ c[2] \notin Busy(virtualTeacher, wd[c[1]])
     /\ c[2] \notin Busy(VirtualOf(virtualGroup, g), wd[c[1]])}

C32_CacheWritesNotLost ==
  (\A m \in CacheMessages : cachePc[m] = "done") =>
     /\ \A m \in CacheMessages :
          m \in DOMAIN cachedSchedules /\ cachedSchedules[m] = "new"
     /\ \A m \in CacheMessages :
          "G0" \in DOMAIN cacheLocal[m] => "G0" \in DOMAIN cachedSchedules

\* C33: whenever FIND_FREE_SLOTS computes slots, state.mySchedule and
\* state.targetSchedule were produced by the same PARSE_SCHEDULE request,
\* also when the FIND_FREE_SLOTS or a second PARSE_SCHEDULE arrives while
\* an earlier PARSE_SCHEDULE awaits its fetches.
C33_SchedulesOfOneRequest ==
  [][\A payload \in FindPayloads :
       (/\ handleFindFreeSlots(payload)
        /\ csResponse'.kind = "success") =>
         mySchedule.request = targetSchedule.request]_vars

====
